---- MODULE Spec2Model ----
(***************************************************************************)
(* Model of the payment-widget server: the Token Authority (jwt.js), the   *)
(* Payload Cipher (jwt.js) and the Request Protocol (app.js).              *)
(*                                                                         *)
(* Strings whose content the code inspects (error messages, header         *)
(* prefixes) are sequences of words, so that concatenation is \o and       *)
(* String.prototype.includes is a search for a word.  Tokens and envelopes *)
(* are records of the parts that jose's jwtVerify / compactDecrypt read.   *)
(* Time is the wall clock in whole seconds, as jose's epoch() sees it.     *)
(***************************************************************************)
EXTENDS Integers, Sequences, FiniteSets, TLC

VARIABLES clock, env, issued, req, calls, res, handlers, accepted, applied,
          form, api

vars == <<clock, env, issued, req, calls, res, handlers, accepted, applied,
          form, api>>

----------------------------------------------------------------------------
(* Bounds of the model *)

\* the clock is sampled around the first MaxPeriods multiples of the lifetime
MaxPeriods == 1
\* number of tokens /api/auth hands out in one behaviour
MaxIssued == 1
\* number of distinct values crypto.randomUUID() is drawn from
MaxUUID == 2
\* number of distinct content keys CompactEncrypt draws
MaxContentKeys == 2
\* number of /api/payment requests the event loop holds at an await
MaxInFlight == 2
\* calls of submitPayment that can be running at once
MaxRunning == 2

----------------------------------------------------------------------------
(* Program constants *)

\* jwt.js: .setExpirationTime('5m')
TokenLifetime == 300
\* app.js: expiresIn: 300
ExpiresIn == 300
\* jwt.js: .setIssuer('jwt-payment-server') and the issuer option of jwtVerify
ISSUER == "jwt-payment-server"
\* app.js: authHeader.startsWith('Bearer ')
BearerPrefix == "Bearer "

----------------------------------------------------------------------------
(* JavaScript values *)

JSUndefined == [t |-> "undefined", v |-> ""]

JSString(s) == [t |-> "string", v |-> s]

JSNull == [t |-> "null"]

\* a number held as the text JSON.stringify writes for it
JSNumber(n) == [t |-> "number", v |-> n]

\* a number that is a whole count of seconds (a NumericDate claim)
JSSeconds(n) == [t |-> "number", n |-> n]

\* the object {}
EmptyObject == [t |-> "object"]

\* an object is a record of its properties, with t |-> "object" beside them
Properties(x) == IF x.t = "object" THEN DOMAIN x \ {"t"} ELSE {}

\* x.k: the value of property k, undefined when x has no such property
Get(x, k) == IF k \in Properties(x) THEN x[k] ELSE JSUndefined

\* a serialiser that writes a nested object as the text '[object Object]'
RECURSIVE JsonStringify_Flat(_)
JsonStringify_Flat(x) ==
    IF x.t = "object"
    THEN [k \in {"t"} \cup {p \in Properties(x) : x[p].t # "undefined"} |->
            IF k = "t" THEN "object"
            ELSE IF x[k].t = "object" THEN JSString("[object Object]")
            ELSE JsonStringify_Flat(x[k])]
    ELSE IF x.t = "null" THEN JSNull
    ELSE IF x.t = "number" /\ x \in {JSNumber("NaN"), JSNumber("Infinity")}
         THEN JSNull
    ELSE IF x.t = "date" THEN JSString(x.v)
    ELSE x

\* the JSON document JSON.stringify(x) writes, as the value JSON.parse
\* reads from it: a property whose value is undefined is left out, NaN and
\* Infinity become null, a Date becomes its ISO string, recursively
RECURSIVE JsonStringify(_)
JsonStringify(x) ==
    IF x.t = "object"
    THEN [k \in {"t"} \cup {p \in Properties(x) : x[p].t # "undefined"} |->
            IF k = "t" THEN "object" ELSE JsonStringify(x[k])]
    ELSE IF x.t = "null" THEN JSNull
    ELSE IF x.t = "number" /\ x \in {JSNumber("NaN"), JSNumber("Infinity")}
         THEN JSNull
    ELSE IF x.t = "date" THEN JSString(x.v)
    ELSE x

\* the operand of `!x` in `if (!clientId)` / `if (!payload_jwe)`
Falsy(x) == x.t = "undefined" \/ (x.t = "string" /\ x.v = "")

\* String.prototype.includes on a message held as a sequence of words
Includes(msg, word) == \E i \in 1..Len(msg) : msg[i] = word

----------------------------------------------------------------------------
(* Key material: process.env, read at call time by the get*Key functions *)

\* the three variables the server reads; TRUE = set to a usable PEM
EnvKeys == {"AUTH_PRIVATE_KEY", "AUTH_PUBLIC_KEY", "ENCRYPT_PRIVATE_KEY"}

Environments == [EnvKeys -> BOOLEAN]

\* result of an async function: resolved with value, or rejected with an
\* Error whose message is error
Resolved(v) == [ok |-> TRUE, error |-> <<>>, value |-> v]

Rejected(msg, v) == [ok |-> FALSE, error |-> msg, value |-> v]

getAuthPrivateKey(e) ==
    IF ~e["AUTH_PRIVATE_KEY"]
    THEN Rejected(<<"AUTH_PRIVATE_KEY", "not", "configured">>, "none")
    ELSE Resolved("AUTH_PRIVATE")

getAuthPublicKey(e) ==
    IF ~e["AUTH_PUBLIC_KEY"]
    THEN Rejected(<<"AUTH_PUBLIC_KEY", "not", "configured">>, "none")
    ELSE Resolved("AUTH_PUBLIC")

getEncryptPrivateKey(e) ==
    IF ~e["ENCRYPT_PRIVATE_KEY"]
    THEN Rejected(<<"ENCRYPT_PRIVATE_KEY", "not", "configured">>, "none")
    ELSE Resolved("ENCRYPT_PRIVATE")

\* the variables of the .env file at the repository root: dotenv gives
\* them to the server, vite's loadEnv to the build of the client
DotEnvKeys == EnvKeys \cup {"ENCRYPT_PUBLIC_KEY", "SERVER_PORT"}

DotEnvs == [DotEnvKeys -> BOOLEAN]

\* the content of variable k when it is set: the key that importPKCS8 /
\* importSPKI make of it, or the port
ContentOf(k) ==
    CASE k = "AUTH_PRIVATE_KEY" -> "AUTH_PRIVATE"
      [] k = "AUTH_PUBLIC_KEY" -> "AUTH_PUBLIC"
      [] k = "ENCRYPT_PRIVATE_KEY" -> "ENCRYPT_PRIVATE"
      [] k = "ENCRYPT_PUBLIC_KEY" -> "ENCRYPT_PUBLIC"
      [] OTHER -> "3001"

\* the value of variable k: its content as a string, or undefined
EnvValue(e, k) == IF e[k] THEN JSString(ContentOf(k)) ELSE JSUndefined

\* a build that defines every variable of the .env file in the client
defineConfig_WholeEnv(e) ==
    [k \in DotEnvKeys |->
        IF k = "SERVER_PORT" /\ ~e[k] THEN JSString("3001")
        ELSE EnvValue(e, k)]

\* vite.config.js `define`: what import.meta.env holds in the client
defineConfig(e) ==
    [ENCRYPT_PUBLIC_KEY |-> EnvValue(e, "ENCRYPT_PUBLIC_KEY"),
     SERVER_PORT |-> IF e["SERVER_PORT"] THEN EnvValue(e, "SERVER_PORT")
                     ELSE JSString("3001")]

\* client jwt.js getEncryptPublicKey(): reads import.meta.env
getEncryptPublicKey(meta) ==
    IF Falsy(meta.ENCRYPT_PUBLIC_KEY)
    THEN Rejected(<<"ENCRYPT_PUBLIC_KEY", "not", "configured">>, "none")
    ELSE Resolved(meta.ENCRYPT_PUBLIC_KEY.v)

\* the public half that verifies / encrypts for a private key
PublicOf(k) ==
    CASE k = "AUTH_PRIVATE" -> "AUTH_PUBLIC"
      [] k = "ENCRYPT_PRIVATE" -> "ENCRYPT_PUBLIC"
      [] OTHER -> "none"

----------------------------------------------------------------------------
(* Token Authority: compact JWS tokens *)

\* header and claims set, the bytes a signature is computed over
SigningInput(alg, clientId, iat, exp, iss, extra) ==
    [alg |-> alg, clientId |-> clientId, iat |-> iat, exp |-> exp, iss |-> iss,
     extra |-> extra]

\* a signature remembers the key that made it and what it was made over
Sign(key, input) == [key |-> key, over |-> input]

\* a token string: parts is the number of '.'-separated segments; extra is
\* the object of the claims other than clientId, iat, exp and iss
MakeToken(parts, alg, clientId, iat, exp, iss, extra, sig) ==
    [parts |-> parts, alg |-> alg, clientId |-> clientId,
     iat |-> iat, exp |-> exp, iss |-> iss, extra |-> extra, sig |-> sig]

InputOf(t) == SigningInput(t.alg, t.clientId, t.iat, t.exp, t.iss, t.extra)

\* the signature segment verifies under the public key pub
SignatureVerifies(t, pub) ==
    /\ PublicOf(t.sig.key) = pub
    /\ t.sig.over = InputOf(t)

\* a string that is not a three-part compact JWS ('', 'invalid-token')
NotAToken ==
    MakeToken(1, "", JSUndefined, 0, 0, "", EmptyObject,
              Sign("none", SigningInput("", JSUndefined, 0, 0, "",
                                        EmptyObject)))

\* new SignJWT(claims).setProtectedHeader({alg:'RS256'}).setIssuedAt()
\*   .setExpirationTime('5m').setIssuer(ISSUER).sign(privateKey)
\* a token authority that signs the clientId and drops the other claims
SignJWT_ClientIdOnly(claims, privateKey, now) ==
    LET clientId == Get(JsonStringify(claims), "clientId")
        input == SigningInput("RS256", clientId, now, now + TokenLifetime,
                              ISSUER, EmptyObject)
    IN  MakeToken(3, "RS256", clientId, now, now + TokenLifetime, ISSUER,
                  EmptyObject, Sign(privateKey, input))

\* the claims object is written as JSON; iat, exp and iss are set after the
\* constructor took the claims and replace entries of the same name
SignJWT(claims, privateKey, now) ==
    LET body == JsonStringify(claims)
        clientId == Get(body, "clientId")
        extra == [k \in {"t"} \cup (Properties(body) \
                                      {"clientId", "iat", "exp", "iss"}) |->
                     body[k]]
        input == SigningInput("RS256", clientId, now, now + TokenLifetime,
                              ISSUER, extra)
    IN  MakeToken(3, "RS256", clientId, now, now + TokenLifetime, ISSUER,
                  extra, Sign(privateKey, input))

issueAuthToken(claims, e, now) ==
    LET privateKey == getAuthPrivateKey(e)
    IN  IF ~privateKey.ok
        THEN Rejected(privateKey.error, NotAToken)
        ELSE Resolved(SignJWT(claims, privateKey.value, now))

\* an expiry test that still accepts the token at its expiry instant
ExpCheckFails_Strict(exp, now) == exp < now

\* payload.exp <= now: the "exp" claim timestamp check of jose
ExpCheckFails(exp, now) == exp <= now

\* the "nbf" claim check of jose: a claim that is present must be a number
\* and must not lie after now
NbfCheckFails(nbf, now) ==
    IF nbf.t = "undefined" THEN FALSE
    ELSE IF nbf.t # "number" THEN TRUE
    ELSE nbf.n > now

\* a verification that looks at the expiry before the signature
jwtVerify_ExpFirst(t, publicKey, algorithms, issuer, now) ==
    LET fail(code) == [ok |-> FALSE, code |-> code, payload |-> t]
    IN  IF t.parts # 3 THEN fail("ERR_JWS_INVALID")
        ELSE IF ExpCheckFails(t.exp, now) THEN fail("ERR_JWT_EXPIRED")
        ELSE IF t.alg \notin algorithms THEN fail("ERR_JOSE_ALG_NOT_ALLOWED")
        ELSE IF ~SignatureVerifies(t, publicKey)
             THEN fail("ERR_JWS_SIGNATURE_VERIFICATION_FAILED")
        ELSE IF t.iss # issuer THEN fail("ERR_JWT_CLAIM_VALIDATION_FAILED")
        ELSE [ok |-> TRUE, code |-> "", payload |-> t]

\* jose jwtVerify(token, publicKey, {algorithms, issuer}): the checks in the
\* order jose applies them; value is the error code, or "" with the payload
jwtVerify(t, publicKey, algorithms, issuer, now) ==
    LET fail(code) == [ok |-> FALSE, code |-> code, payload |-> t]
    IN  IF t.parts # 3 THEN fail("ERR_JWS_INVALID")
        ELSE IF t.alg \notin algorithms THEN fail("ERR_JOSE_ALG_NOT_ALLOWED")
        ELSE IF ~SignatureVerifies(t, publicKey)
             THEN fail("ERR_JWS_SIGNATURE_VERIFICATION_FAILED")
        ELSE IF t.iss # issuer THEN fail("ERR_JWT_CLAIM_VALIDATION_FAILED")
        ELSE IF NbfCheckFails(Get(t.extra, "nbf"), now)
             THEN fail("ERR_JWT_CLAIM_VALIDATION_FAILED")
        ELSE IF ExpCheckFails(t.exp, now) THEN fail("ERR_JWT_EXPIRED")
        ELSE [ok |-> TRUE, code |-> "", payload |-> t]

MsgExpired == <<"Auth", "token", "has", "expired">>

MsgInvalid == <<"Invalid", "auth", "token">>

\* a catch block that does not look at the error code
VerifyErrorMessage_AlwaysInvalid(code) == MsgInvalid

\* the catch block of verifyAuthToken
VerifyErrorMessage(code) ==
    IF code = "ERR_JWT_EXPIRED" THEN MsgExpired ELSE MsgInvalid

\* a verifyAuthToken that fetches the public key inside its try block
verifyAuthToken_KeyInsideTry(t, e, now) ==
    LET publicKey == getAuthPublicKey(e)
        r == jwtVerify(t, publicKey.value, {"RS256"}, ISSUER, now)
    IN  IF ~publicKey.ok
        THEN Rejected(MsgInvalid, t)
        ELSE IF r.ok
             THEN Resolved(r.payload)
             ELSE Rejected(VerifyErrorMessage(r.code), t)

\* a verifyAuthToken that passes no algorithms and no issuer option
verifyAuthToken_NoOptions(t, e, now) ==
    LET publicKey == getAuthPublicKey(e)
        r == jwtVerify(t, publicKey.value, {"RS256", "PS256"}, t.iss, now)
    IN  IF ~publicKey.ok
        THEN Rejected(publicKey.error, t)
        ELSE IF r.ok
             THEN Resolved(r.payload)
             ELSE Rejected(VerifyErrorMessage(r.code), t)

verifyAuthToken(t, e, now) ==
    LET publicKey == getAuthPublicKey(e)
        r == jwtVerify(t, publicKey.value, {"RS256"}, ISSUER, now)
    IN  IF ~publicKey.ok
        THEN Rejected(publicKey.error, t)
        ELSE IF r.ok
             THEN Resolved(r.payload)
             ELSE Rejected(VerifyErrorMessage(r.code), t)

----------------------------------------------------------------------------
(* Payload Cipher: compact JWE envelopes *)

\* plaintext bytes that are not JSON
RawText(word) == [json |-> FALSE, text |-> word, value |-> JSUndefined]

\* encoder.encode(JSON.stringify(payload)): the plaintext bytes of an
\* envelope; JSON.stringify(undefined) is undefined and encodes to no bytes
JsonText(payload) ==
    IF payload.t = "undefined" THEN RawText("")
    ELSE [json |-> TRUE, text |-> "", value |-> JsonStringify(payload)]

\* an envelope value as found in req.body.payload_jwe.  parts: number of
\* '.'-separated segments; protectedOk: the first segment decodes to a JWE
\* protected header; ek: the content key wrapped for a public key; ctKey: the
\* content key the ciphertext was produced under; tagOk: the tag segment is
\* the authentication tag of the ciphertext; plaintext: what was encrypted
MakeEnvelope(t, v, parts, protectedOk, pub, cek, ctKey, tagOk, plaintext) ==
    [t |-> t, v |-> v, parts |-> parts, protectedOk |-> protectedOk,
     ek |-> [pub |-> pub, cek |-> cek], ctKey |-> ctKey, tagOk |-> tagOk,
     plaintext |-> plaintext]

\* new CompactEncrypt(plaintext).setProtectedHeader(...).encrypt(publicKey)
\* with the fresh content key cek
CompactEncrypt(plaintext, publicKey, cek) ==
    MakeEnvelope("string", "jwe", 5, TRUE, publicKey, cek, cek, TRUE, plaintext)

\* client jwt.js encryptPayload(payload) with the fresh content key cek
encryptPayload(payload, meta, cek) ==
    LET publicKey == getEncryptPublicKey(meta)
    IN  IF ~publicKey.ok
        THEN Rejected(publicKey.error, JSUndefined)
        ELSE Resolved(CompactEncrypt(JsonText(payload), publicKey.value, cek))

\* a cipher that takes the content key without unwrapping it
UnwrappedKey_Unchecked(jwe, privateKey) == jwe.ek.cek

\* the content key jose obtains from the encrypted-key segment: on an unwrap
\* failure it continues with a random key, which never decrypts the content
UnwrappedKey(jwe, privateKey) ==
    IF jwe.ek.pub = PublicOf(privateKey) THEN jwe.ek.cek ELSE 0

\* jose compactDecrypt(jwe, privateKey): resolves with the plaintext or
\* rejects with a JOSEError whose message is error
compactDecrypt(jwe, privateKey) ==
    IF jwe.t # "string"
    THEN Rejected(<<"Compact", "JWE", "must", "be", "a", "string", "or",
                    "Uint8Array">>, jwe.plaintext)
    ELSE IF jwe.parts # 5
    THEN Rejected(<<"Invalid", "Compact", "JWE">>, jwe.plaintext)
    ELSE IF ~jwe.protectedOk
    THEN Rejected(<<"JWE", "Protected", "Header", "is", "invalid">>,
                  jwe.plaintext)
    ELSE IF UnwrappedKey(jwe, privateKey) # jwe.ctKey \/ ~jwe.tagOk
    THEN Rejected(<<"decryption", "operation", "failed">>, jwe.plaintext)
    ELSE Resolved(jwe.plaintext)

\* JSON.parse(new TextDecoder().decode(plaintext))
JsonParse(plaintext) ==
    IF plaintext.json
    THEN Resolved(plaintext.value)
    ELSE Rejected(<<"Unexpected", "token", plaintext.text, "is", "not",
                    "valid", "JSON">>, JSUndefined)

MsgDecryptPrefix == <<"Failed", "to", "decrypt", "payload:">>

\* a decryptPayload whose try block ends before JSON.parse
decryptPayload_ParseOutsideTry(jwe, e) ==
    LET privateKey == getEncryptPrivateKey(e)
        d == compactDecrypt(jwe, privateKey.value)
        p == JsonParse(d.value)
    IN  IF ~privateKey.ok
        THEN Rejected(privateKey.error, JSUndefined)
        ELSE IF ~d.ok
        THEN Rejected(MsgDecryptPrefix \o d.error, JSUndefined)
        ELSE IF ~p.ok
        THEN Rejected(p.error, JSUndefined)
        ELSE Resolved(p.value)

\* decryptPayload(jwe): the key is fetched before the try block, the
\* envelope is opened and its plaintext parsed inside it
decryptPayload(jwe, e) ==
    LET privateKey == getEncryptPrivateKey(e)
        d == compactDecrypt(jwe, privateKey.value)
        p == JsonParse(d.value)
    IN  IF ~privateKey.ok
        THEN Rejected(privateKey.error, JSUndefined)
        ELSE IF ~d.ok
        THEN Rejected(MsgDecryptPrefix \o d.error, JSUndefined)
        ELSE IF ~p.ok
        THEN Rejected(MsgDecryptPrefix \o p.error, JSUndefined)
        ELSE Resolved(p.value)

----------------------------------------------------------------------------
(* Request Protocol: the two routes of app.js *)

\* a request header value: head is its first seven characters, rest the
\* remainder (authHeader.substring(7)) read as a token string
MakeHeader(t, head, rest) == [t |-> t, v |-> head, rest |-> rest]

NoHeader == MakeHeader("undefined", "", NotAToken)

\* a request body as sent; present = FALSE is a request without a body
MakeBody(present, clientId, payload_jwe) ==
    [present |-> present, clientId |-> clientId, payload_jwe |-> payload_jwe]

NoEnvelope ==
    MakeEnvelope("undefined", "", 0, FALSE, "none", 0, 0, FALSE, RawText(""))

\* express.json(): req.body is {} when the request carries no body
ExpressJson(body) ==
    IF body.present THEN body ELSE MakeBody(TRUE, JSUndefined, NoEnvelope)

\* a request with the instant at which the server handles it
MakeRequest(route, authorization, body, at) ==
    [route |-> route, authorization |-> authorization, body |-> body,
     at |-> at]

\* res.status(status).json(body)
Json(status, body) == [status |-> status, body |-> body]

Failure(msg) == [success |-> FALSE, error |-> msg]

\* a prefix test that ignores the case of the scheme name
StartsWithBearer_AnyCase(h) == h.v \in {BearerPrefix, "bearer "}

\* authHeader.startsWith('Bearer ')
StartsWithBearer(h) == h.v = BearerPrefix

\* the test of line 49: !authHeader || !authHeader.startsWith('Bearer ')
HeaderRejected(h) == Falsy(h) \/ ~StartsWithBearer(h)

\* a test that only notices an absent clientId
ClientIdMissing_UndefinedOnly(clientId) == clientId.t = "undefined"

\* the test of line 16: !clientId
ClientIdMissing(clientId) == Falsy(clientId)

\* a test that only notices an empty payload_jwe
EnvelopeMissing_EmptyOnly(payload_jwe) ==
    payload_jwe.t = "string" /\ payload_jwe.v = ""

\* the test of line 62: !payload_jwe
EnvelopeMissing(payload_jwe) == Falsy(payload_jwe)

\* a catch block whose search for 'Invalid' ignores case
CatchStatus_AnyCase(msg) ==
    IF \/ Includes(msg, "expired")
       \/ Includes(msg, "Invalid")
       \/ Includes(msg, "invalid")
    THEN 401 ELSE 500

\* the status chosen by the catch block of /api/payment
CatchStatus(msg) ==
    IF Includes(msg, "expired") \/ Includes(msg, "Invalid") THEN 401 ELSE 500

\* paymentData.amount: reading a property of null throws a TypeError
ReadAmount(paymentData) ==
    IF paymentData.t = "null"
    THEN Rejected(<<"Cannot", "read", "properties", "of", "null",
                    "(reading", "'amount')">>, JSUndefined)
    ELSE Resolved(Get(paymentData, "amount"))

\* the result record as serialised by res.json: JSON.stringify drops a
\* property whose value is undefined
ResultBody(transactionId, amount, clientId, timestamp) ==
    LET base == [success |-> TRUE,
                 message |-> <<"Payment", "processed", "successfully">>,
                 transactionId |-> transactionId,
                 timestamp |-> timestamp]
        withAmount == IF amount.t = "undefined" THEN base
                      ELSE [k \in DOMAIN base \cup {"amount"} |->
                              IF k = "amount" THEN amount ELSE base[k]]
    IN  IF clientId.t = "undefined" THEN withAmount
        ELSE [k \in DOMAIN withAmount \cup {"clientId"} |->
                IF k = "clientId" THEN clientId ELSE withAmount[k]]

\* app.post('/api/auth'): response and the functions it called
AuthHandler(body, e, now) ==
    LET clientId == ExpressJson(body).clientId
        token == issueAuthToken([t |-> "object", clientId |-> clientId],
                                e, now)
    IN  IF ClientIdMissing(clientId)
        THEN [res |-> Json(400, Failure(<<"clientId", "is", "required">>)),
              calls |-> <<>>]
        ELSE IF token.ok
        THEN [res |-> Json(200, [success |-> TRUE, token |-> token.value,
                                 expiresIn |-> ExpiresIn]),
              calls |-> <<"issueAuthToken">>]
        ELSE [res |-> Json(500, Failure(<<"Failed", "to", "issue", "auth",
                                          "token">>)),
              calls |-> <<"issueAuthToken">>]

\* a payment handler that looks at the body before the token
PaymentHandler_BodyFirst(authHeader, body, e, now, uuid) ==
    LET authPayload == verifyAuthToken(authHeader.rest, e, now)
        payload_jwe == ExpressJson(body).payload_jwe
        paymentData == decryptPayload(payload_jwe, e)
        amount == ReadAmount(paymentData.value)
        caught(msg, called) ==
            [res |-> Json(CatchStatus(msg), Failure(msg)), calls |-> called]
    IN  IF HeaderRejected(authHeader)
        THEN [res |-> Json(401, Failure(<<"Authorization", "header",
                                          "required">>)),
              calls |-> <<>>]
        ELSE IF EnvelopeMissing(payload_jwe)
        THEN [res |-> Json(400, Failure(<<"payload_jwe", "is", "required">>)),
              calls |-> <<>>]
        ELSE IF ~paymentData.ok
        THEN caught(paymentData.error, <<"decryptPayload">>)
        ELSE IF ~authPayload.ok
        THEN caught(authPayload.error, <<"decryptPayload", "verifyAuthToken">>)
        ELSE IF ~amount.ok
        THEN caught(amount.error, <<"decryptPayload", "verifyAuthToken">>)
        ELSE [res |-> Json(200, ResultBody(uuid, amount.value,
                                           authPayload.value.clientId, now)),
              calls |-> <<"decryptPayload", "verifyAuthToken">>]

\* app.post('/api/payment'): response and the functions it called
PaymentHandler(authHeader, body, e, now, uuid) ==
    LET authPayload == verifyAuthToken(authHeader.rest, e, now)
        payload_jwe == ExpressJson(body).payload_jwe
        paymentData == decryptPayload(payload_jwe, e)
        amount == ReadAmount(paymentData.value)
        caught(msg, called) ==
            [res |-> Json(CatchStatus(msg), Failure(msg)), calls |-> called]
    IN  IF HeaderRejected(authHeader)
        THEN [res |-> Json(401, Failure(<<"Authorization", "header",
                                          "required">>)),
              calls |-> <<>>]
        ELSE IF ~authPayload.ok
        THEN caught(authPayload.error, <<"verifyAuthToken">>)
        ELSE IF EnvelopeMissing(payload_jwe)
        THEN [res |-> Json(400, Failure(<<"payload_jwe", "is", "required">>)),
              calls |-> <<"verifyAuthToken">>]
        ELSE IF ~paymentData.ok
        THEN caught(paymentData.error, <<"verifyAuthToken", "decryptPayload">>)
        ELSE IF ~amount.ok
        THEN caught(amount.error, <<"verifyAuthToken", "decryptPayload">>)
        ELSE [res |-> Json(200, ResultBody(uuid, amount.value,
                                           authPayload.value.clientId, now)),
              calls |-> <<"verifyAuthToken", "decryptPayload">>]

----------------------------------------------------------------------------
(* Inputs the environment can send *)

\* the instants at which the wall clock is observed
Instants ==
    {i \in {k * TokenLifetime + d : k \in 0..MaxPeriods, d \in {-1, 0, 1}} :
        i >= 0}

\* an instant after every expiry the model can produce
Horizon == (MaxPeriods + 2) * TokenLifetime

ClientIds == {JSString("c1"), JSString("c2")}

\* bodies of POST /api/auth
AuthBodies ==
    {MakeBody(FALSE, JSUndefined, NoEnvelope)}
      \cup {MakeBody(TRUE, c, NoEnvelope) :
              c \in ClientIds \cup {JSUndefined, JSString("")}}

\* one character of the signature segment changed
TamperSignature(t) == [t EXCEPT !.sig.key = "none"]

\* the payload segment changed, the signature segment kept
TamperPayload(t) ==
    {[t EXCEPT !.exp = Horizon]}
      \cup {[t EXCEPT !.clientId = c] : c \in ClientIds \ {t.clientId}}

\* a token signed by key with the given header and claims
ForeignToken(alg, key, iss, exp) ==
    MakeToken(3, alg, JSString("c1"), 0, exp, iss, EmptyObject,
              Sign(key, SigningInput(alg, JSString("c1"), 0, exp, iss,
                                     EmptyObject)))

\* tokens this server did not issue: another holder of the auth key pair
\* signing under its own issuer name or with RSASSA-PSS, an HMAC keyed with
\* the public key, an unsecured token, a token signed with an unrelated key
ForeignTokens ==
    {NotAToken}
      \cup {ForeignToken("RS256", "AUTH_PRIVATE", "other-issuer", x) :
              x \in {1, Horizon}}
      \cup {ForeignToken("PS256", "AUTH_PRIVATE", ISSUER, Horizon),
            ForeignToken("HS256", "AUTH_PUBLIC", ISSUER, Horizon),
            ForeignToken("none", "none", ISSUER, Horizon),
            ForeignToken("RS256", "OTHER_PRIVATE", ISSUER, Horizon)}

\* token strings a client can put after 'Bearer '
PresentableTokens ==
    issued \cup {TamperSignature(t) : t \in issued}
           \cup UNION {TamperPayload(t) : t \in issued}
           \cup ForeignTokens

\* Authorization header values
AuthHeaders ==
    {NoHeader, MakeHeader("string", "", NotAToken)}
      \cup {MakeHeader("string", h, t) :
              h \in {"Basic x", "bearer "}, t \in issued \cup {NotAToken}}
      \cup {MakeHeader("string", BearerPrefix, t) : t \in PresentableTokens}


\* JSON values a client encrypts: objects with or without amount, and null
Payloads ==
    {[t |-> "object", amount |-> a] :
        a \in {JSNumber("99.99"), JSNumber("150"), JSUndefined}}
      \cup {[t |-> "null", amount |-> JSUndefined]}

GoodEnvelopes ==
    {CompactEncrypt(JsonText(p), "ENCRYPT_PUBLIC", 1) : p \in Payloads}

\* values of payload_jwe: absent, '', a number, 'invalid-jwe-string',
\* 'a.b.c.d.e', envelopes for this server, one with its tag changed, one
\* wrapped for another recipient, one whose plaintext is not JSON
Envelopes ==
    {NoEnvelope,
     MakeEnvelope("string", "", 1, FALSE, "none", 0, 0, FALSE, RawText("")),
     MakeEnvelope("number", "5", 0, FALSE, "none", 0, 0, FALSE, RawText("")),
     MakeEnvelope("string", "invalid-jwe-string", 1, FALSE, "none", 0, 0,
                  FALSE, RawText("")),
     MakeEnvelope("string", "a.b.c.d.e", 5, FALSE, "none", 0, 0, FALSE,
                  RawText("")),
     CompactEncrypt(RawText("hello"), "ENCRYPT_PUBLIC", 1),
     CompactEncrypt(JsonText([t |-> "object", amount |-> JSNumber("99.99")]),
                    "OTHER_PUBLIC", 1),
     [CompactEncrypt(JsonText([t |-> "object", amount |-> JSNumber("99.99")]),
                     "ENCRYPT_PUBLIC", 1) EXCEPT !.tagOk = FALSE]}
      \cup GoodEnvelopes

\* bodies of POST /api/payment
PaymentBodies ==
    {MakeBody(FALSE, JSUndefined, NoEnvelope)}
      \cup {MakeBody(TRUE, JSUndefined, j) : j \in Envelopes}

\* values crypto.randomUUID() returns
UUIDs == 1..MaxUUID

----------------------------------------------------------------------------
(* The state machine *)

\* no exchange is in progress
NoRequest ==
    MakeRequest("none", NoHeader, MakeBody(FALSE, JSUndefined, NoEnvelope), 0)

NoResponse == Json(0, [success |-> FALSE])

\* no function has been applied on its own
NotApplied == [f |-> "none", at |-> 0, later |-> 0]

\* the fields of the payment form that the submit handler validates
FieldNames == {"cardNumber", "expirationDate", "cvv", "postalCode"}

\* PaymentForm(onSubmit, amount) as created: empty inputs, no error element,
\* an empty result div; onSubmit holds the calls of onSubmit that the last
\* run of handleSubmit made, event the handler that ran last, and now is
\* the browser's new Date()
NewForm(now) ==
    [value |-> [f \in FieldNames |-> <<>>],
     error |-> [f \in FieldNames |-> [t |-> "null"]],
     result |-> <<>>,
     onSubmit |-> <<>>,
     event |-> "load",
     now |-> now]

\* no page is open
NoForm == NewForm([month |-> 0, ms |-> 0])

Slots == 1..MaxRunning

\* no call runs in a slot
Idle == [pc |-> "idle"]

\* a call of submitPayment suspended at pc; authorization is the header of
\* the /api/payment request it sent, cacheAtStart what `if (!authToken)`
\* found, alone whether no other call has run beside it, recovers whether
\* it is the first call after one that failed alone on an expired token,
\* auths and payments the requests it sent
Running(pc, authorization, cacheAtStart, alone, recovers, auths, payments) ==
    [pc |-> pc, authorization |-> authorization,
     cacheAtStart |-> cacheAtStart, alone |-> alone, recovers |-> recovers,
     auths |-> auths, payments |-> payments]

\* how a call of submitPayment ended: resolved, or rejected with an Error of
\* message error; status is that of the response that decided it, 0 when no
\* response did; late tells that the token it sent had expired when the
\* server handled the request
Ended(c, outcome, status, error, late) ==
    [outcome |-> outcome, status |-> status, error |-> error, late |-> late,
     cacheAtStart |-> c.cacheAtStart, alone |-> c.alone,
     recovers |-> c.recovers, auths |-> c.auths, payments |-> c.payments]

\* no call has ended
NoneEnded ==
    [outcome |-> "none", status |-> 0, error |-> <<>>, late |-> FALSE,
     cacheAtStart |-> "empty", alone |-> TRUE, recovers |-> FALSE,
     auths |-> 0, payments |-> 0]

\* api.js as loaded, with the bookkeeping of the calls: last is the call
\* that ended most recently
ApiInit ==
    [authToken |-> JSNull,
     running |-> [s \in Slots |-> Idle],
     last |-> NoneEnded]

Init ==
    /\ clock = 0
    /\ env \in Environments
    /\ issued = {}
    /\ req = NoRequest
    /\ calls = <<>>
    /\ res = NoResponse
    /\ handlers = {}
    /\ accepted = {}
    /\ applied = NotApplied
    /\ form = NoForm
    /\ api = ApiInit

\* the wall clock moves on to a later instant
Tick ==
    /\ \E i \in Instants : i > clock /\ clock' = i
    /\ UNCHANGED <<form, api, env, issued, req, calls, res, handlers,
                   accepted, applied>>

\* a client sends POST /api/auth and the server answers
PostAuth(body) ==
    LET out == AuthHandler(body, env, clock)
        tokens == IF out.res.status = 200
                  THEN issued \cup {out.res.body.token} ELSE issued
    IN  /\ req = NoRequest
        /\ Cardinality(tokens) <= MaxIssued
        /\ req' = MakeRequest("/api/auth", NoHeader, body, clock)
        /\ res' = out.res
        /\ calls' = out.calls
        /\ issued' = tokens
        /\ UNCHANGED <<form, api, clock, env, handlers, accepted, applied>>

\* a client sends POST /api/payment and the server answers
PostPayment(authHeader, body, uuid) ==
    LET out == PaymentHandler(authHeader, body, env, clock, uuid)
    IN  /\ req = NoRequest
        /\ req' = MakeRequest("/api/payment", authHeader, body, clock)
        /\ res' = out.res
        /\ calls' = out.calls
        /\ UNCHANGED <<form, api, clock, env, issued, handlers, accepted,
                       applied>>

\* the response reaches the client and the exchange is over
Deliver ==
    /\ req # NoRequest
    /\ req' = NoRequest
    /\ res' = NoResponse
    /\ calls' = <<>>
    /\ UNCHANGED <<form, api, clock, env, issued, handlers, accepted,
                   applied>>

Next ==
    \/ Tick
    \/ Deliver
    \/ \E body \in AuthBodies : PostAuth(body)
    \/ \E authHeader \in AuthHeaders, body \in PaymentBodies, uuid \in UUIDs :
         PostPayment(authHeader, body, uuid)

Spec == Init /\ [][Next]_vars

----------------------------------------------------------------------------
(* The event loop: /api/payment handlers suspended at their awaits *)

\* a handler suspended at `await verifyAuthToken(token)` (app.js line 57)
Suspended(authHeader, body) ==
    [pc |-> "verifyAuthToken", authHeader |-> authHeader, body |-> body,
     authPayload |-> NotAToken]

\* a handler whose payload_jwe is a variable all requests share: it reads
\* the envelope of a request that arrived while it was suspended
EnvelopeOf_Shared(hs, h) ==
    LET others == {g \in hs : g # h}
    IN  IF others = {} THEN ExpressJson(h.body).payload_jwe
        ELSE ExpressJson((CHOOSE g \in others : TRUE).body).payload_jwe

\* `const { payload_jwe } = req.body`: the envelope held in the closure of
\* one handler, hs being all the handlers suspended at that moment
EnvelopeOf(hs, h) == ExpressJson(h.body).payload_jwe

\* the instants the clock is observed at while tokens are reused
SessionInstants == {0, TokenLifetime - 1, TokenLifetime}

\* the requests sent while others are in flight
SessionHeaders ==
    {NoHeader} \cup {MakeHeader("string", BearerPrefix, t) : t \in issued}

SessionBodies ==
    {MakeBody(TRUE, JSUndefined, j) :
        j \in {NoEnvelope} \cup
              {CompactEncrypt(JsonText([t |-> "object", amount |-> a]),
                              "ENCRYPT_PUBLIC", 1) :
                 a \in {JSNumber("99.99"), JSNumber("150")}}}

\* the handler answers: the exchange becomes visible and the handler ends
Respond(h, out, at) ==
    /\ req = NoRequest
    /\ req' = MakeRequest("/api/payment", h.authHeader, h.body, at)
    /\ res' = out.res
    /\ calls' = out.calls
    /\ handlers' = handlers \ {h}

\* the wall clock moves on while no handler is suspended
TickSession ==
    /\ handlers = {}
    /\ \E i \in SessionInstants : i > clock /\ clock' = i
    /\ UNCHANGED <<form, api, env, issued, req, calls, res, handlers,
                   accepted, applied>>

\* lines 45-57: the request arrives; without a Bearer header it is answered
\* at once, otherwise the handler suspends at `await verifyAuthToken`
Receive(authHeader, body) ==
    LET h == Suspended(authHeader, body)
    IN  /\ Cardinality(handlers) < MaxInFlight
        /\ h \notin handlers
        /\ IF HeaderRejected(authHeader)
           THEN /\ Respond(h, [res |-> Json(401, Failure(<<"Authorization",
                                            "header", "required">>)),
                               calls |-> <<>>], clock)
           ELSE /\ handlers' = handlers \cup {h}
                /\ UNCHANGED <<req, calls, res>>
        /\ UNCHANGED <<form, api, clock, env, issued, accepted, applied>>

\* a server that remembers the tokens it has accepted and takes each once
Verified_Once(h) ==
    LET authPayload == verifyAuthToken(h.authHeader.rest, env, clock)
        payload_jwe == ExpressJson(h.body).payload_jwe
    IN  /\ h.pc = "verifyAuthToken"
        /\ IF h.authHeader.rest \in accepted
           THEN Respond(h, [res |-> Json(401, Failure(MsgInvalid)),
                            calls |-> <<"verifyAuthToken">>], clock)
           ELSE IF ~authPayload.ok
           THEN Respond(h, [res |-> Json(CatchStatus(authPayload.error),
                                         Failure(authPayload.error)),
                            calls |-> <<"verifyAuthToken">>], clock)
           ELSE IF EnvelopeMissing(payload_jwe)
           THEN Respond(h, [res |-> Json(400, Failure(<<"payload_jwe", "is",
                                                        "required">>)),
                            calls |-> <<"verifyAuthToken">>], clock)
           ELSE /\ handlers' = (handlers \ {h}) \cup
                       {[h EXCEPT !.pc = "decryptPayload",
                                  !.authPayload = authPayload.value]}
                /\ UNCHANGED <<req, calls, res>>
        /\ UNCHANGED <<form, api, clock, env, issued, accepted, applied>>

\* lines 57-66: verifyAuthToken settles; the handler answers 401/500 from
\* the catch block, 400 for a missing envelope, or suspends at
\* `await decryptPayload`
Verified(h) ==
    LET authPayload == verifyAuthToken(h.authHeader.rest, env, clock)
        payload_jwe == EnvelopeOf(handlers, h)
    IN  /\ h.pc = "verifyAuthToken"
        /\ IF ~authPayload.ok
           THEN Respond(h, [res |-> Json(CatchStatus(authPayload.error),
                                         Failure(authPayload.error)),
                            calls |-> <<"verifyAuthToken">>], clock)
           ELSE IF EnvelopeMissing(payload_jwe)
           THEN Respond(h, [res |-> Json(400, Failure(<<"payload_jwe", "is",
                                                        "required">>)),
                            calls |-> <<"verifyAuthToken">>], clock)
           ELSE /\ handlers' = (handlers \ {h}) \cup
                       {[h EXCEPT !.pc = "decryptPayload",
                                  !.authPayload = authPayload.value]}
                /\ UNCHANGED <<req, calls, res>>
        /\ UNCHANGED <<form, api, clock, env, issued, accepted, applied>>

\* lines 69-98: decryptPayload settles; the handler answers with the result
\* record or from the catch block
Decrypted(h, uuid) ==
    LET paymentData == decryptPayload(EnvelopeOf(handlers, h), env)
        amount == ReadAmount(paymentData.value)
        called == <<"verifyAuthToken", "decryptPayload">>
        ok == paymentData.ok /\ amount.ok
        msg == IF paymentData.ok THEN amount.error ELSE paymentData.error
    IN  /\ h.pc = "decryptPayload"
        /\ IF ok
           THEN /\ Respond(h, [res |-> Json(200,
                                  ResultBody(uuid, amount.value,
                                      h.authPayload.clientId,
                                      clock)),
                               calls |-> called], clock)
                /\ accepted' = accepted \cup {h.authHeader.rest}
           ELSE /\ Respond(h, [res |-> Json(CatchStatus(msg), Failure(msg)),
                               calls |-> called], clock)
                /\ UNCHANGED accepted
        /\ UNCHANGED <<form, api, clock, env, issued, applied>>

NextSession ==
    \/ TickSession
    \/ Deliver
    \/ \E body \in AuthBodies : PostAuth(body)
    \/ \E authHeader \in SessionHeaders, body \in SessionBodies :
         Receive(authHeader, body)
    \/ \E h \in handlers : Verified(h)
    \/ \E h \in handlers, uuid \in UUIDs : Decrypted(h, uuid)

SpecSession == Init /\ [][NextSession]_vars

----------------------------------------------------------------------------
(* The exported functions, each called on its own *)

\* the record of one call: the function, its argument and how it settled
Call(f, arg, out) ==
    [f |-> f, arg |-> arg, out |-> out, at |-> 0, later |-> 0]

\* the start of a process with its .env file
InitFn ==
    /\ clock = 0
    /\ env \in DotEnvs
    /\ issued = {}
    /\ req = NoRequest
    /\ calls = <<>>
    /\ res = NoResponse
    /\ handlers = {}
    /\ accepted = {}
    /\ applied = NotApplied
    /\ form = NoForm
    /\ api = ApiInit

\* content keys CompactEncrypt draws
ContentKeys == 1..MaxContentKeys

\* values handed to encryptPayload: the payloads of the tests, objects
\* nested twice, and values JSON cannot carry
RoundTripPayloads ==
    LET order == [t |-> "object", orderId |-> JSString("ORD-123")]
        card == JSString("4111111111111111")
    IN  {[t |-> "object"],
         [t |-> "object", cardNumber |-> card, amount |-> JSNumber("99.99")],
         [t |-> "object", cardNumber |-> card, amount |-> JSNumber("150"),
          metadata |-> order],
         [t |-> "object", amount |-> JSNumber("150"),
          metadata |-> [t |-> "object", order |-> order, note |-> JSNull]],
         [t |-> "object", amount |-> JSUndefined],
         [t |-> "object", amount |-> JSNumber("NaN")],
         [t |-> "object", metadata |-> [t |-> "object", at |->
             [t |-> "date", v |-> "2025-01-01T00:00:00.000Z"]]],
         [t |-> "object", metadata |-> [t |-> "object",
                                        orderId |-> JSUndefined]],
         JSNull, JSString("4111111111111111"), JSNumber("99.99"),
         JSUndefined}

\* await encryptPayload(payload) in the client
CallEncryptPayload(payload, cek) ==
    /\ applied = NotApplied
    /\ applied' = Call("encryptPayload", payload,
                       encryptPayload(payload, defineConfig(env), cek))
    /\ UNCHANGED <<form, api, clock, env, issued, req, calls, res,
                   handlers, accepted>>

\* const jwe = await encryptPayload(payload); await decryptPayload(jwe)
CallEncryptThenDecrypt(payload, cek) ==
    LET jwe == encryptPayload(payload, defineConfig(env), cek)
        out == IF jwe.ok THEN decryptPayload(jwe.value, env) ELSE jwe
    IN  /\ applied = NotApplied
        /\ applied' = Call("encryptPayload;decryptPayload", payload, out)
        /\ UNCHANGED <<form, api, clock, env, issued, req, calls, res,
                       handlers,
                       accepted>>

\* claims objects handed to issueAuthToken: those of the tests, and ones
\* with entries named like the claims the token authority sets itself
TokenClaims ==
    LET c == JSString("test-client")
        client == [t |-> "object", clientId |-> c]
    IN  {EmptyObject, client,
         [t |-> "object", clientId |-> c, role |-> JSString("admin")],
         [t |-> "object", role |-> JSString("admin"),
          scope |-> [t |-> "object", payments |-> JSString("write")]],
         [t |-> "object", clientId |-> c, iss |-> JSString("other-issuer")],
         [t |-> "object", clientId |-> c, iss |-> JSString(ISSUER)],
         [t |-> "object", clientId |-> c, exp |-> JSSeconds(Horizon)],
         [t |-> "object", clientId |-> c, iat |-> JSSeconds(1)],
         [t |-> "object", clientId |-> c, nbf |-> JSSeconds(0)],
         [t |-> "object", clientId |-> c, nbf |-> JSSeconds(Horizon)],
         [t |-> "object", clientId |-> c, nbf |-> JSString("tomorrow")]}

\* const token = await issueAuthToken(claims) at instant at, then
\* await verifyAuthToken(token) after a further `later` seconds
CallIssueThenVerify(claims, at, later) ==
    LET token == issueAuthToken(claims, env, at)
        out == IF token.ok THEN verifyAuthToken(token.value, env, at + later)
               ELSE token
    IN  /\ applied = NotApplied
        /\ applied' = [Call("issueAuthToken;verifyAuthToken", claims, out)
                          EXCEPT !.at = at, !.later = later]
        /\ UNCHANGED <<form, api, clock, env, issued, req, calls, res,
                       handlers,
                       accepted>>

\* token strings handed to verifyAuthToken: tokens of this server issued at
\* the sampled instants, and the tokens it did not issue
TokenStrings ==
    {SignJWT([t |-> "object", clientId |-> c], "AUTH_PRIVATE", i) :
        c \in ClientIds, i \in Instants} \cup ForeignTokens

\* Authorization header values of the requests made on their own
RequestHeaders ==
    {NoHeader} \cup {MakeHeader("string", BearerPrefix, t) : t \in TokenStrings}

\* await verifyAuthToken(token) at instant at
CallVerifyAuthToken(token, at) ==
    /\ applied = NotApplied
    /\ applied' = [Call("verifyAuthToken", token,
                        verifyAuthToken(token, env, at)) EXCEPT !.at = at]
    /\ UNCHANGED <<form, api, clock, env, issued, req, calls, res,
                   handlers, accepted>>

\* request(app).post('/api/auth').send(body) at instant at
RequestAuth(body, at) ==
    /\ applied = NotApplied
    /\ applied' = [Call("/api/auth", [authorization |-> NoHeader,
                                      body |-> body],
                        AuthHandler(body, env, at)) EXCEPT !.at = at]
    /\ UNCHANGED <<form, api, clock, env, issued, req, calls, res,
                   handlers, accepted>>

\* request(app).post('/api/payment').set('Authorization', authHeader)
\*   .send(body) at instant at
RequestPayment(authHeader, body, at, uuid) ==
    /\ applied = NotApplied
    /\ applied' = [Call("/api/payment", [authorization |-> authHeader,
                                         body |-> body],
                        PaymentHandler(authHeader, body, env, at, uuid))
                      EXCEPT !.at = at]
    /\ UNCHANGED <<form, api, clock, env, issued, req, calls, res,
                   handlers, accepted>>

\* await decryptPayload(jwe)
CallDecryptPayload(jwe) ==
    /\ applied = NotApplied
    /\ applied' = Call("decryptPayload", jwe, decryptPayload(jwe, env))
    /\ UNCHANGED <<form, api, clock, env, issued, req, calls, res,
                   handlers, accepted>>

\* the caller has the outcome; the next call starts afresh
Return ==
    /\ applied # NotApplied
    /\ applied' = NotApplied
    /\ UNCHANGED <<form, api, clock, env, issued, req, calls, res,
                   handlers, accepted>>

NextFn ==
    \/ Return
    \/ \E jwe \in Envelopes : CallDecryptPayload(jwe)
    \/ \E token \in TokenStrings, at \in Instants :
         CallVerifyAuthToken(token, at)
    \/ \E body \in AuthBodies, at \in Instants : RequestAuth(body, at)
    \/ \E authHeader \in RequestHeaders, body \in PaymentBodies,
          at \in Instants, uuid \in UUIDs :
         RequestPayment(authHeader, body, at, uuid)
    \/ \E claims \in TokenClaims, at \in Instants,
          later \in {0, 1, TokenLifetime - 1, TokenLifetime} :
         CallIssueThenVerify(claims, at, later)
    \/ \E payload \in RoundTripPayloads, cek \in ContentKeys :
         CallEncryptThenDecrypt(payload, cek)
    \/ \E payload \in RoundTripPayloads, cek \in ContentKeys :
         CallEncryptPayload(payload, cek)

SpecFn == InitFn /\ [][NextFn]_vars

----------------------------------------------------------------------------
(* Vocabulary of the properties: the last exchange, read from req, calls   *)
(* and res                                                                 *)

IsAuth == req.route = "/api/auth"

IsPayment == req.route = "/api/payment"

\* the function named f was called while the request was handled
Called(f) == \E i \in 1..Len(calls) : calls[i] = f

\* the Authorization value is a string with the prefix 'Bearer '
HasBearer == req.authorization.t = "string" /\ req.authorization.v = "Bearer "

\* the token string after the prefix
Presented == req.authorization.rest

\* t was signed with the auth private key over its own header and claims
CorrectlySigned(t) ==
    t.parts = 3 /\ t.sig.key = "AUTH_PRIVATE" /\ t.sig.over = InputOf(t)

\* t is what the server accepts at instant at: issued by /api/auth, RS256,
\* fixed issuer, not yet at its expiry
ValidAt(t, at) ==
    /\ t \in issued
    /\ CorrectlySigned(t)
    /\ t.alg = "RS256" /\ t.iss = "jwt-payment-server"
    /\ at < t.exp

\* the request carries a valid token the server is able to verify
Authenticated ==
    HasBearer /\ ValidAt(Presented, req.at) /\ env["AUTH_PUBLIC_KEY"]

\* the body has a payload_jwe property
HasEnvelope == req.body.present /\ req.body.payload_jwe.t # "undefined"

\* the envelope is a five-part string whose key was wrapped for this server,
\* whose tag matches and whose plaintext is JSON
Decryptable(j) ==
    /\ j.t = "string" /\ j.parts = 5 /\ j.protectedOk
    /\ j.ek.pub = "ENCRYPT_PUBLIC" /\ j.ek.cek = j.ctKey /\ j.tagOk
    /\ j.plaintext.json

\* the amount property of a response body, undefined when it has none
AmountOf(body) ==
    IF "amount" \in DOMAIN body THEN body.amount ELSE JSUndefined

----------------------------------------------------------------------------
(* C1: POST /api/payment answers success:true only with status 200 and     *)
(* only when the request had the 'Bearer ' prefix, its token was issued by *)
(* /api/auth, correctly signed and not expired when handled, payload_jwe   *)
(* was present and decrypted to a parsed payload; clientId of the response *)
(* is the token's clientId and amount is the decrypted payload's amount.   *)
C1_SuccessOnlyThroughAllGates ==
    (IsPayment /\ (res.body.success \/ res.status = 200)) =>
        /\ res.body.success /\ res.status = 200
        /\ HasBearer
        /\ ValidAt(Presented, req.at)
        /\ env["AUTH_PUBLIC_KEY"] /\ env["ENCRYPT_PRIVATE_KEY"]
        /\ HasEnvelope
        /\ Decryptable(req.body.payload_jwe)
        /\ req.body.payload_jwe.plaintext.value.t = "object"
        /\ res.body.clientId = Presented.clientId
        /\ AmountOf(res.body) =
              Get(req.body.payload_jwe.plaintext.value, "amount")
        /\ Called("verifyAuthToken") /\ Called("decryptPayload")

\* a payment succeeded with an amount and a client identifier
C1_Witness ==
    /\ IsPayment /\ res.status = 200 /\ res.body.success
    /\ Presented \in issued
    /\ res.body.clientId = JSString("c2")
    /\ AmountOf(res.body) = JSNumber("150")

----------------------------------------------------------------------------
(* C2: the gates of POST /api/payment are evaluated in the order header,   *)
(* token, payload_jwe, decryption; the first unmet gate gives the response *)
(* whatever the later gates would have said, and decryptPayload is called  *)
(* only after the token was verified and payload_jwe found present.        *)
C2_GatesInOrder ==
    IsPayment =>
        /\ ~HasBearer =>
              /\ calls = <<>>
              /\ res = Json(401, Failure(<<"Authorization", "header",
                                           "required">>))
        /\ (HasBearer /\ ~ValidAt(Presented, req.at)) =>
              /\ calls = <<"verifyAuthToken">>
              /\ env["AUTH_PUBLIC_KEY"] =>
                    /\ res.status = 401
                    /\ res.body.error \in {MsgExpired, MsgInvalid}
        /\ (Authenticated /\ ~HasEnvelope) =>
              /\ calls = <<"verifyAuthToken">>
              /\ res.status = 400
        /\ Called("decryptPayload") =>
              /\ calls = <<"verifyAuthToken", "decryptPayload">>
              /\ Authenticated
              /\ HasEnvelope

\* an expired token sent without payload_jwe is answered by the token gate
C2_Witness ==
    /\ IsPayment /\ HasBearer
    /\ Presented \in issued /\ req.at >= Presented.exp
    /\ ~HasEnvelope
    /\ res.status = 401 /\ calls = <<"verifyAuthToken">>

----------------------------------------------------------------------------
\* the request reached decryptPayload with the decryption key configured
DecryptAttempted ==
    /\ IsPayment /\ Authenticated /\ HasEnvelope
    /\ req.body.payload_jwe # MakeEnvelope("string", "", 1, FALSE, "none",
                                            0, 0, FALSE, RawText(""))
    /\ env["ENCRYPT_PRIVATE_KEY"]

\* msg is 'Failed to decrypt payload: ' followed by a cause
HasDecryptPrefix(msg) ==
    Len(msg) > Len(MsgDecryptPrefix)
      /\ SubSeq(msg, 1, Len(MsgDecryptPrefix)) = MsgDecryptPrefix

----------------------------------------------------------------------------
----------------------------------------------------------------------------
(* C5: a POST /api/payment whose Authorization value is absent or lacks    *)
(* the prefix 'Bearer ' is answered 401 {success:false, error:             *)
(* 'Authorization header required'} whatever the body, and verifyAuthToken *)
(* is not called.                                                          *)
C5_HeaderRequired ==
    (IsPayment /\ (req.authorization.t = "undefined"
                     \/ req.authorization.v # "Bearer ")) =>
        /\ res.status = 401
        /\ res.body = [success |-> FALSE,
                       error |-> <<"Authorization", "header", "required">>]
        /\ ~Called("verifyAuthToken")
        /\ ~Called("decryptPayload")

\* a valid token under the scheme name 'bearer ' with a good envelope
C5_Witness ==
    /\ IsPayment
    /\ req.authorization.v = "bearer "
    /\ ValidAt(Presented, req.at)
    /\ HasEnvelope /\ Decryptable(req.body.payload_jwe)
    /\ res.status = 401

----------------------------------------------------------------------------
(* C6: a POST /api/payment with a valid, unexpired token and no            *)
(* payload_jwe in its body is answered 400 {success:false, error:          *)
(* 'payload_jwe is required'}, and decryptPayload is not called.           *)
C6_EnvelopeRequired ==
    (IsPayment /\ Authenticated /\ ~HasEnvelope) =>
        /\ res.status = 400
        /\ res.body = [success |-> FALSE,
                       error |-> <<"payload_jwe", "is", "required">>]
        /\ ~Called("decryptPayload")

\* a body without payload_jwe sent with a valid token
C6_Witness ==
    /\ IsPayment /\ Authenticated
    /\ req.body.present /\ ~HasEnvelope
    /\ res.status = 400

----------------------------------------------------------------------------
\* the body of the /api/auth request has no clientId, or an empty one
NoClientId ==
    \/ ~req.body.present
    \/ req.body.clientId.t = "undefined"
    \/ req.body.clientId = JSString("")

(* C7: with the signing key configured POST /api/auth has two outcomes:    *)
(* 400 {success:false, error:'clientId is required'} without issuing a     *)
(* token when clientId is missing or empty or there is no body; otherwise  *)
(* 200 {success:true, token, expiresIn:300} with a token issued by         *)
(* issueAuthToken for that clientId.                                       *)
C7_AuthOutcomes ==
    (IsAuth /\ env["AUTH_PRIVATE_KEY"]) =>
        IF NoClientId
        THEN /\ res.status = 400
             /\ res.body = [success |-> FALSE,
                            error |-> <<"clientId", "is", "required">>]
             /\ calls = <<>>
        ELSE /\ res.status = 200
             /\ DOMAIN res.body = {"success", "token", "expiresIn"}
             /\ res.body.success
             /\ res.body.expiresIn = 300
             /\ calls = <<"issueAuthToken">>
             /\ res.body.token \in issued
             /\ res.body.token.clientId = req.body.clientId
             /\ CorrectlySigned(res.body.token)

\* a token was issued for the clientId of the request
C7_Witness ==
    /\ IsAuth /\ env["AUTH_PRIVATE_KEY"]
    /\ res.status = 200
    /\ res.body.token.clientId = JSString("c2")

----------------------------------------------------------------------------
\* verifyAuthToken resolved: the handler went on to the payload_jwe gate
VerificationPassed ==
    \/ (calls = <<"verifyAuthToken">> /\ res.status = 400)
    \/ Called("decryptPayload")

(* C8: a token issued at instant T carries iat = T and exp = T + 300;      *)
(* verifyAuthToken accepts it at every instant up to T + 299 and rejects   *)
(* it with 'Auth token has expired' at T + 300 and at every later instant. *)
C8_ExpiryBoundary ==
    /\ (IsAuth /\ res.status = 200) =>
          /\ res.body.token.iat = req.at
          /\ res.body.token.exp = req.at + 300
    /\ \A t \in issued : t.exp - t.iat = 300
    /\ (IsPayment /\ HasBearer /\ Presented \in issued
          /\ env["AUTH_PUBLIC_KEY"]) =>
          IF req.at <= Presented.iat + 299
          THEN VerificationPassed
          ELSE /\ req.at >= Presented.iat + 300
               /\ res = Json(401, Failure(MsgExpired))
               /\ calls = <<"verifyAuthToken">>

\* a payment made 299 seconds after the token was issued succeeds
C8_Witness ==
    /\ IsPayment /\ HasBearer /\ Presented \in issued
    /\ req.at = Presented.iat + 299
    /\ res.status = 200

----------------------------------------------------------------------------
\* the presented token is an issued token with its signature segment or its
\* payload segment changed
Tampered ==
    \E t \in issued :
        Presented = TamperSignature(t) \/ Presented \in TamperPayload(t)

(* C9: a token whose signature does not verify (the signature or the       *)
(* payload segment of an issued token changed) is rejected with 'Invalid   *)
(* auth token', also when its expiry instant has passed; 'Auth token has   *)
(* expired' is reported only for tokens whose signature is valid.          *)
C9_TamperedIsInvalid ==
    (IsPayment /\ HasBearer /\ env["AUTH_PUBLIC_KEY"]) =>
        /\ (Tampered \/ ~CorrectlySigned(Presented)) =>
              /\ res = Json(401, Failure(MsgInvalid))
              /\ calls = <<"verifyAuthToken">>
        /\ res.body = Failure(MsgExpired) => CorrectlySigned(Presented)

\* an expired token with a changed signature segment is answered as invalid
C9_Witness ==
    /\ IsPayment /\ HasBearer /\ env["AUTH_PUBLIC_KEY"]
    /\ \E t \in issued : Presented = TamperSignature(t)
    /\ req.at >= Presented.exp
    /\ res = Json(401, Failure(MsgInvalid))

----------------------------------------------------------------------------
(* C10: a three-part token whose issuer claim is not 'jwt-payment-server'  *)
(* or whose header names an algorithm other than RS256 is rejected with    *)
(* 'Invalid auth token', also when it is correctly signed and unexpired,   *)
(* and never reaches the success path of POST /api/payment.                *)
C10_IssuerAndAlgorithm ==
    (IsPayment /\ HasBearer /\ Presented.parts = 3
       /\ (Presented.iss # "jwt-payment-server" \/ Presented.alg # "RS256")) =>
        /\ res.status # 200
        /\ ~res.body.success
        /\ ~Called("decryptPayload")
        /\ env["AUTH_PUBLIC_KEY"] => res = Json(401, Failure(MsgInvalid))

\* an unexpired token signed with the auth key under another issuer name,
\* sent with a good envelope, is answered as invalid
C10_Witness ==
    /\ IsPayment /\ HasBearer
    /\ CorrectlySigned(Presented)
    /\ Presented.alg = "RS256" /\ Presented.iss = "other-issuer"
    /\ req.at < Presented.exp
    /\ HasEnvelope /\ Decryptable(req.body.payload_jwe)
    /\ res = Json(401, Failure(MsgInvalid))

----------------------------------------------------------------------------
(* C11: the server keeps no session: an issued token passes verification   *)
(* on every submission handled before its expiry instant, whether or not   *)
(* it was accepted before and whatever other submissions are in flight,    *)
(* and is rejected as expired from the expiry instant on, whether or not   *)
(* it was used; a submission never changes the set of issued tokens or a   *)
(* token's expiry: only an /api/auth answer adds a token, none is replaced.*)
C11_TokenReusableUntilExpiry ==
    /\ [](\A used \in BOOLEAN :
            (IsPayment /\ HasBearer /\ Presented \in issued
               /\ env["AUTH_PUBLIC_KEY"]
               /\ (Presented \in accepted) = used) =>
               /\ Presented.exp = Presented.iat + TokenLifetime
               /\ req.at < Presented.exp => VerificationPassed
               /\ req.at >= Presented.exp =>
                     res = Json(401, Failure(MsgExpired)))
    /\ [][/\ issued \subseteq issued'
          /\ issued' # issued => req'.route = "/api/auth"]_vars

\* a token that was accepted, with another submission of it still in
\* flight, is rejected once its window is over
C11_Witness ==
    /\ IsPayment /\ HasBearer /\ Presented \in issued
    /\ Presented \in accepted
    /\ \E h \in handlers : h.authHeader.rest = Presented
    /\ req.at = Presented.exp
    /\ res = Json(401, Failure(MsgExpired))

----------------------------------------------------------------------------
(* C12: whatever other requests are suspended or answered in between, the  *)
(* response to a request is the one its handler gives when it runs alone   *)
(* at the same clock value: that of app.post('/api/payment') on the        *)
(* request's own header and body with the keys of the environment, for one *)
(* of the values randomUUID can return, or that of app.post('/api/auth')   *)
(* on the request's own body.                                              *)
C12_HandledAsIfAlone ==
    /\ IsPayment =>
          \E uuid \in UUIDs :
              [res |-> res, calls |-> calls] =
                  PaymentHandler(req.authorization, req.body, env, req.at, uuid)
    /\ IsAuth =>
          [res |-> res, calls |-> calls] = AuthHandler(req.body, env, req.at)

\* a payment is answered with its own amount while a handler holding
\* another envelope is suspended at decryptPayload
C12_Witness ==
    /\ IsPayment /\ res.status = 200
    /\ \E h \in handlers :
          /\ h.pc = "decryptPayload"
          /\ ExpressJson(h.body).payload_jwe # req.body.payload_jwe

----------------------------------------------------------------------------
(* C13: decryptPayload never partially succeeds.  Called on any value, it  *)
(* either resolves with the whole parsed JSON document of the envelope, or *)
(* rejects and hands back nothing; with the private key configured it      *)
(* resolves exactly for the envelopes that open and hold JSON, and every   *)
(* rejection carries 'Failed to decrypt payload: ' followed by the cause   *)
(* reported by compactDecrypt or JSON.parse.                               *)
C13_DecryptAllOrNothing ==
    applied.f = "decryptPayload" =>
        /\ applied.out.ok =>
              /\ Decryptable(applied.arg)
              /\ applied.out.value = applied.arg.plaintext.value
              /\ applied.out.error = <<>>
        /\ ~applied.out.ok =>
              /\ applied.out.value = JSUndefined
              /\ applied.out.error # <<>>
        /\ env["ENCRYPT_PRIVATE_KEY"] =>
              /\ applied.out.ok = Decryptable(applied.arg)
              /\ ~applied.out.ok =>
                    /\ HasDecryptPrefix(applied.out.error)
                    /\ \E cause \in {compactDecrypt(applied.arg,
                                         "ENCRYPT_PRIVATE").error,
                                     JsonParse(applied.arg.plaintext).error} :
                          /\ cause # <<>>
                          /\ applied.out.error = MsgDecryptPrefix \o cause

\* an envelope for this server whose plaintext is not JSON was rejected
\* with the prefixed message of JSON.parse
C13_Witness ==
    /\ applied.f = "decryptPayload"
    /\ env["ENCRYPT_PRIVATE_KEY"]
    /\ compactDecrypt(applied.arg, "ENCRYPT_PRIVATE").ok
    /\ ~applied.arg.plaintext.json
    /\ ~applied.out.ok /\ HasDecryptPrefix(applied.out.error)

----------------------------------------------------------------------------
\* x is a value JSON carries as it is: a string, a finite number, null, or
\* an object all of whose property values are such values
RECURSIVE JsonSerializable(_)
JsonSerializable(x) ==
    \/ x.t \in {"string", "null"}
    \/ x.t = "number" /\ x \notin {JSNumber("NaN"), JSNumber("Infinity")}
    \/ x.t = "object" /\ \A k \in Properties(x) : JsonSerializable(x[k])

\* x has an object among the property values of one of its properties
NestedTwice(x) ==
    \E k \in Properties(x) : \E j \in Properties(x[k]) : x[k][j].t = "object"

----------------------------------------------------------------------------
\* payload[k] of the claims verifyAuthToken resolves with
ClaimOf(payload, k) ==
    CASE k = "clientId" -> payload.clientId
      [] k = "iss" -> JSString(payload.iss)
      [] k = "iat" -> JSSeconds(payload.iat)
      [] k = "exp" -> JSSeconds(payload.exp)
      [] OTHER -> Get(payload.extra, k)

\* a token was issued with both auth keys configured and verified within
\* its validity window
IssuedAndVerifiedInWindow ==
    /\ applied.f = "issueAuthToken;verifyAuthToken"
    /\ env["AUTH_PRIVATE_KEY"] /\ env["AUTH_PUBLIC_KEY"]
    /\ applied.later < TokenLifetime

\* the claims verification resolves with carry the issuer and the time
\* fields set at issuance
IssuanceFields(payload) ==
    /\ payload.iss = ISSUER
    /\ payload.iat = applied.at
    /\ payload.exp = applied.at + TokenLifetime

\* C15 as stated: for every claims object C the round trip resolves with
\* claims that contain every entry of C unchanged and the issuance fields
C15_Original ==
    IssuedAndVerifiedInWindow =>
        /\ applied.out.ok
        /\ \A k \in Properties(applied.arg) :
              ClaimOf(applied.out.value, k) = applied.arg[k]
        /\ IssuanceFields(applied.out.value)

\* C carries a not-before entry that is not a number or lies after the
\* instant of verification
NotYetValid(C) ==
    NbfCheckFails(Get(C, "nbf"), applied.at + applied.later)

(* C15: for every claims object C, verifyAuthToken(issueAuthToken(C))      *)
(* within the validity window resolves unless C has an nbf entry that is   *)
(* not a number or lies in the future, in which case it rejects with       *)
(* 'Invalid auth token'; the claims it resolves with contain every entry   *)
(* of C whose name is not iss, iat or exp unchanged, nested values         *)
(* included, and iss = 'jwt-payment-server', iat = the instant of issuance *)
(* and exp = iat + 300 in place of any entries of C with these names.      *)
C15_TokenRoundTrip ==
    IssuedAndVerifiedInWindow =>
        /\ applied.out.ok = ~NotYetValid(applied.arg)
        /\ applied.out.ok =>
              /\ \A k \in Properties(applied.arg) \ {"iss", "iat", "exp"} :
                    ClaimOf(applied.out.value, k) = applied.arg[k]
              /\ IssuanceFields(applied.out.value)
        /\ ~applied.out.ok => applied.out.error = MsgInvalid

\* claims with an issuer of their own came back with clientId unchanged and
\* the issuer set at issuance
C15_Witness ==
    /\ IssuedAndVerifiedInWindow
    /\ applied.later = TokenLifetime - 1
    /\ Get(applied.arg, "iss") = JSString("other-issuer")
    /\ applied.out.ok
    /\ ClaimOf(applied.out.value, "clientId") = applied.arg.clientId
    /\ ClaimOf(applied.out.value, "iss") = JSString(ISSUER)

----------------------------------------------------------------------------
\* 'NAME not configured'
NotConfigured(name) == <<name, "not", "configured">>

\* the function named f was called while the request made on its own was
\* handled
Reached(f) ==
    \E i \in 1..Len(applied.out.calls) : applied.out.calls[i] = f

(* C17: a missing key is a configuration error of its own.  With           *)
(* AUTH_PRIVATE_KEY absent issueAuthToken rejects with 'AUTH_PRIVATE_KEY   *)
(* not configured'; with AUTH_PUBLIC_KEY absent verifyAuthToken rejects    *)
(* every token string with 'AUTH_PUBLIC_KEY not configured', never with    *)
(* 'Invalid auth token'; with ENCRYPT_PRIVATE_KEY absent decryptPayload    *)
(* rejects every value with 'ENCRYPT_PRIVATE_KEY not configured', without  *)
(* the 'Failed to decrypt payload' prefix; a request whose handler called  *)
(* the function that lacks its key is answered 500, never 401.             *)
C17_MissingKeyIsConfigurationError ==
    /\ (applied.f = "issueAuthToken;verifyAuthToken"
          /\ ~env["AUTH_PRIVATE_KEY"]) =>
          /\ ~applied.out.ok
          /\ applied.out.error = NotConfigured("AUTH_PRIVATE_KEY")
    /\ (applied.f \in {"verifyAuthToken", "issueAuthToken;verifyAuthToken"}
          /\ env["AUTH_PRIVATE_KEY"] /\ ~env["AUTH_PUBLIC_KEY"]) =>
          /\ ~applied.out.ok
          /\ applied.out.error = NotConfigured("AUTH_PUBLIC_KEY")
          /\ applied.out.error # MsgInvalid
    /\ (applied.f = "decryptPayload" /\ ~env["ENCRYPT_PRIVATE_KEY"]) =>
          /\ ~applied.out.ok
          /\ applied.out.error = NotConfigured("ENCRYPT_PRIVATE_KEY")
          /\ ~HasDecryptPrefix(applied.out.error)
    /\ (applied.f = "/api/auth" /\ Reached("issueAuthToken")
          /\ ~env["AUTH_PRIVATE_KEY"]) =>
          applied.out.res.status = 500
    /\ (applied.f = "/api/payment" /\ Reached("verifyAuthToken")
          /\ ~env["AUTH_PUBLIC_KEY"]) =>
          applied.out.res =
              Json(500, Failure(NotConfigured("AUTH_PUBLIC_KEY")))
    /\ (applied.f = "/api/payment" /\ Reached("decryptPayload")
          /\ ~env["ENCRYPT_PRIVATE_KEY"]) =>
          applied.out.res =
              Json(500, Failure(NotConfigured("ENCRYPT_PRIVATE_KEY")))

\* a payment request with a token that would verify was answered 500
\* because the auth public key is not configured
C17_Witness ==
    /\ applied.f = "/api/payment" /\ Reached("verifyAuthToken")
    /\ ~env["AUTH_PUBLIC_KEY"]
    /\ CorrectlySigned(applied.arg.authorization.rest)
    /\ applied.arg.authorization.rest.exp > applied.at
    /\ applied.out.res.status = 500

----------------------------------------------------------------------------
\* the properties of the result record of a successful payment
ResultFields == {"transactionId", "amount", "clientId", "timestamp"}

\* the messages of the exceptions thrown by the functions the handler of
\* the current request awaited
ThrownMessages ==
    LET claims == [t |-> "object", clientId |-> ExpressJson(req.body).clientId]
        d == decryptPayload(ExpressJson(req.body).payload_jwe, env)
        all ==
          IF IsAuth
          THEN IF Called("issueAuthToken")
               THEN {issueAuthToken(claims, env, req.at).error} ELSE {}
          ELSE (IF Called("verifyAuthToken")
                THEN {verifyAuthToken(Presented, env, req.at).error} ELSE {})
               \cup (IF Called("decryptPayload") THEN {d.error} ELSE {})
               \cup (IF Called("decryptPayload") /\ d.ok
                     THEN {ReadAmount(d.value).error} ELSE {})
    IN  all \ {<<>>}

\* C18 as stated: every failure response has exactly the properties success
\* (false) and error (a message), none of the result fields, and the error
\* of a 500 response is not the message of the exception that caused it
C18_FailureShapeOpaqueFault ==
    (req # NoRequest /\ res.status # 200) =>
        /\ DOMAIN res.body = {"success", "error"}
        /\ DOMAIN res.body \cap ResultFields = {}
        /\ res.body.success = FALSE
        /\ res.body.error # <<>>
        /\ res.status = 500 => res.body.error \notin ThrownMessages

----------------------------------------------------------------------------
\* the contents of the two private keys
PrivateContents ==
    {ContentOf("AUTH_PRIVATE_KEY"), ContentOf("ENCRYPT_PRIVATE_KEY")}

\* the contents of all keys but the encrypt public key
KeysNotForClient == PrivateContents \cup {ContentOf("AUTH_PUBLIC_KEY")}

\* the strings among the property values of object x, at every depth
RECURSIVE StringsIn(_)
StringsIn(x) ==
    IF x.t = "string" THEN {x.v}
    ELSE UNION {StringsIn(x[k]) : k \in Properties(x)}

\* the strings a holder of token t reads in its header and claims; the
\* signature segment is a value computed with the key, not the key
TokenStringsOf(t) ==
    {t.alg, t.iss} \cup StringsIn(t.clientId) \cup StringsIn(t.extra)

\* the strings of a response body: the words of its messages, the strings
\* of its token and of its result fields
BodyStrings(body) ==
    (IF "error" \in DOMAIN body
     THEN {body.error[i] : i \in 1..Len(body.error)} ELSE {})
    \cup (IF "message" \in DOMAIN body
          THEN {body.message[i] : i \in 1..Len(body.message)} ELSE {})
    \cup (IF "token" \in DOMAIN body THEN TokenStringsOf(body.token) ELSE {})
    \cup (IF "clientId" \in DOMAIN body THEN StringsIn(body.clientId) ELSE {})
    \cup (IF "amount" \in DOMAIN body THEN StringsIn(body.amount) ELSE {})

\* what the client code can read: the properties of import.meta.env
ImportMetaEnv == defineConfig(env)

(* C19: in every state the client reads from import.meta.env no key other  *)
(* than the encrypt public key (neither private key, nor the auth public   *)
(* key); the envelope encryptPayload makes is wrapped for the encrypt       *)
(* public key and its plaintext holds neither private key; the body of     *)
(* every response of /api/auth and /api/payment, the token it issues       *)
(* included, holds neither private key, whatever keys are configured.      *)
C19_KeySeparation ==
    /\ \A k \in DOMAIN ImportMetaEnv :
          \A str \in StringsIn(ImportMetaEnv[k]) : str \notin KeysNotForClient
    /\ (applied.f = "encryptPayload" /\ applied.out.ok) =>
          /\ applied.out.value.ek.pub = ContentOf("ENCRYPT_PUBLIC_KEY")
          /\ StringsIn(applied.out.value.plaintext.value)
                \cap PrivateContents = {}
    /\ applied.f \in {"/api/auth", "/api/payment"} =>
          BodyStrings(applied.out.res.body) \cap PrivateContents = {}

\* with all keys configured the client made an envelope with the encrypt
\* public key, the only key it can read
C19_Witness ==
    /\ \A k \in DotEnvKeys : env[k]
    /\ applied.f = "encryptPayload" /\ applied.out.ok
    /\ applied.out.value.ek.pub = "ENCRYPT_PUBLIC"
    /\ ImportMetaEnv.ENCRYPT_PUBLIC_KEY = JSString("ENCRYPT_PUBLIC")

----------------------------------------------------------------------------
\* the fields the payment form validates before it builds the payload
CardFields == {"cardNumber", "expirationDate", "cvv", "postalCode"}

\* payload p cannot pass card-field validation: it is no object, a card
\* field is not a string, or it has no amount
FailsCardFieldValidation(p) ==
    \/ p.t # "object"
    \/ \E k \in CardFields : Get(p, k).t # "string"
    \/ Get(p, "amount").t = "undefined"

\* C20: a POST /api/payment submission whose decrypted payload fails
\* card-field validation (a card field or the amount is missing) is not
\* answered with success
C20_ServerSideValidation ==
    (IsPayment /\ HasEnvelope /\ Decryptable(req.body.payload_jwe)
       /\ FailsCardFieldValidation(req.body.payload_jwe.plaintext.value)) =>
        ~(res.status = 200 \/ res.body.success)

----------------------------------------------------------------------------
(* The card-field formatters and validators of the client (validators.js,   *)
(* copied into PaymentForm.js).  A field value is the sequence of its       *)
(* characters; a message is a sequence of words, as elsewhere.              *)

\* the characters \d matches, in order of their value
DigitChars == <<"0", "1", "2", "3", "4", "5", "6", "7", "8", "9">>

\* \d
IsDigit(c) == \E n \in DOMAIN DigitChars : DigitChars[n] = c

\* \s, for the white space the inputs of the model contain
IsSpace(c) == c \in {" ", "\t"}

\* parseInt(c, 10) of a digit character
parseInt(c) == (CHOOSE n \in DOMAIN DigitChars : DigitChars[n] = c) - 1

\* the number two digit characters write: parseInt(match[k], 10)
parseInt2(s) == parseInt(s[1]) * 10 + parseInt(s[2])

\* value.replace(/\D/g, '')
DigitsOf(value) == SelectSeq(value, IsDigit)

\* value.replace(/\s/g, '')
Cleaned(value) == SelectSeq(value, LAMBDA c : ~IsSpace(c))

\* s.substring(0, n)
Substring(s, n) == SubSeq(s, 1, IF Len(s) < n THEN Len(s) ELSE n)

\* validators.js: /^\d{13,19}$/
MinCardDigits == 13
MaxCardDigits == 19
\* validators.js: .{1,4} and substring(0, 19) of formatCardNumber
GroupSize == 4
MaxCardChars == 19
\* validators.js: substring(0, 4) of formatCvv, 3..4 of validateCvv
MinCvvLength == 3
MaxCvvLength == 4
\* validators.js: substring(0, 5) of formatPostalCode, 5 of validatePostalCode
PostalCodeLength == 5
\* validators.js: parseInt(match[2], 10) + 2000
Century == 2000
\* validators.js: month < 1 || month > 12
MonthsPerYear == 12

\* digits.match(/.{1,4}/g) || []: the groups from the left, the last one
\* shorter when the digits do not fill it
RECURSIVE Groups(_)
Groups(digits) ==
    IF Len(digits) = 0 THEN <<>>
    ELSE IF Len(digits) <= GroupSize THEN <<digits>>
    ELSE <<SubSeq(digits, 1, GroupSize)>>
           \o Groups(SubSeq(digits, GroupSize + 1, Len(digits)))

\* groups.join(' ')
RECURSIVE Join(_)
Join(groups) ==
    IF Len(groups) = 0 THEN <<>>
    ELSE IF Len(groups) = 1 THEN groups[1]
    ELSE groups[1] \o <<" ">> \o Join(Tail(groups))

\* a formatter that cuts the joined groups one character later
formatCardNumber_Cut20(value) ==
    Substring(Join(Groups(DigitsOf(value))), MaxCardChars + 1)

formatCardNumber(value) ==
    Substring(Join(Groups(DigitsOf(value))), MaxCardChars)

formatExpirationDate(value) ==
    LET digits == DigitsOf(value)
    IN  IF Len(digits) >= 2
        THEN Substring(digits, 2) \o <<"/">>
               \o SubSeq(digits, 3, IF Len(digits) < 4 THEN Len(digits) ELSE 4)
        ELSE digits

formatCvv(value) == Substring(DigitsOf(value), MaxCvvLength)

formatPostalCode(value) == Substring(DigitsOf(value), PostalCodeLength)

\* a loop that doubles without reducing the doubled digit by 9
RECURSIVE LuhnLoop_NoReduce(_, _, _, _)
LuhnLoop_NoReduce(cleaned, i, isEven, sum) ==
    IF i < 1 THEN sum
    ELSE LET digit == parseInt(cleaned[i])
             added == IF ~isEven THEN digit ELSE digit * 2
         IN  LuhnLoop_NoReduce(cleaned, i - 1, ~isEven, sum + added)

\* the loop of validateCardNumber from index i down to the first character
RECURSIVE LuhnLoop(_, _, _, _)
LuhnLoop(cleaned, i, isEven, sum) ==
    IF i < 1 THEN sum
    ELSE LET digit == parseInt(cleaned[i])
             twice == digit * 2
             added == IF ~isEven THEN digit
                      ELSE IF twice > 9 THEN twice - 9 ELSE twice
         IN  LuhnLoop(cleaned, i - 1, ~isEven, sum + added)

\* the {valid, message} object validateCardNumber returns
CardResult(valid, message) ==
    [t |-> "object", valid |-> valid, message |-> message]

\* a validator that starts doubling with the last digit
validateCardNumber_DoubleLast(cardNumber) ==
    LET cleaned == Cleaned(cardNumber)
        wellFormed == /\ Len(cleaned) >= MinCardDigits
                      /\ Len(cleaned) <= MaxCardDigits
                      /\ \A i \in DOMAIN cleaned : IsDigit(cleaned[i])
        valid == LuhnLoop(cleaned, Len(cleaned), TRUE, 0) % 10 = 0
    IN  IF ~wellFormed
        THEN CardResult(FALSE, <<"Card", "number", "must", "be", "13-19",
                                 "digits">>)
        ELSE CardResult(valid, IF valid THEN <<>>
                               ELSE <<"Invalid", "card", "number">>)

validateCardNumber(cardNumber) ==
    LET cleaned == Cleaned(cardNumber)
        wellFormed == /\ Len(cleaned) >= MinCardDigits
                      /\ Len(cleaned) <= MaxCardDigits
                      /\ \A i \in DOMAIN cleaned : IsDigit(cleaned[i])
        valid == LuhnLoop(cleaned, Len(cleaned), FALSE, 0) % 10 = 0
    IN  IF ~wellFormed
        THEN CardResult(FALSE, <<"Card", "number", "must", "be", "13-19",
                                 "digits">>)
        ELSE CardResult(valid, IF valid THEN <<>>
                               ELSE <<"Invalid", "card", "number">>)

\* what a validator of the other fields returns: a message, or null
ErrorMessage(words) == [t |-> "string", v |-> words]

\* an instant as new Date() gives it: the month it lies in, counted from
\* January of year 0, and the milliseconds since that month began
DateOf(year, month, ms) == [month |-> year * MonthsPerYear + month, ms |-> ms]

\* a < b on two Date objects
Before(a, b) == a.month < b.month \/ (a.month = b.month /\ a.ms < b.ms)

\* value.match(/^(\d{2})\/(\d{2})$/)
MatchesMMYY(value) ==
    /\ Len(value) = 5
    /\ IsDigit(value[1]) /\ IsDigit(value[2])
    /\ value[3] = "/"
    /\ IsDigit(value[4]) /\ IsDigit(value[5])

\* a validator that takes the first instant of the stated month as expiry
validateExpirationDate_ThisMonth(value, now) ==
    IF Len(value) = 0
    THEN ErrorMessage(<<"Expiration", "date", "is", "required">>)
    ELSE IF ~MatchesMMYY(value)
    THEN ErrorMessage(<<"Expiration", "date", "must", "be", "MM/YY",
                        "format">>)
    ELSE LET month == parseInt2(SubSeq(value, 1, 2))
             year == parseInt2(SubSeq(value, 4, 5)) + Century
             expiry == DateOf(year, month - 1, 0)
         IN  IF month < 1 \/ month > MonthsPerYear
             THEN ErrorMessage(<<"Invalid", "month">>)
             ELSE IF Before(expiry, now)
             THEN ErrorMessage(<<"Card", "has", "expired">>)
             ELSE JSNull

\* new Date(year, month) takes month from 0, so MM names the month after
\* the stated one, and 12 the January of the next year
validateExpirationDate(value, now) ==
    IF Len(value) = 0
    THEN ErrorMessage(<<"Expiration", "date", "is", "required">>)
    ELSE IF ~MatchesMMYY(value)
    THEN ErrorMessage(<<"Expiration", "date", "must", "be", "MM/YY",
                        "format">>)
    ELSE LET month == parseInt2(SubSeq(value, 1, 2))
             year == parseInt2(SubSeq(value, 4, 5)) + Century
             expiry == DateOf(year, month, 0)
         IN  IF month < 1 \/ month > MonthsPerYear
             THEN ErrorMessage(<<"Invalid", "month">>)
             ELSE IF Before(expiry, now)
             THEN ErrorMessage(<<"Card", "has", "expired">>)
             ELSE JSNull

\* a validator that also wants every character to be a digit
validateCvv_DigitsOnly(value) ==
    IF Len(value) = 0 THEN ErrorMessage(<<"CVV", "is", "required">>)
    ELSE IF Len(value) < MinCvvLength \/ Len(value) > MaxCvvLength
              \/ \E i \in DOMAIN value : ~IsDigit(value[i])
    THEN ErrorMessage(<<"CVV", "must", "be", "3-4", "digits">>)
    ELSE JSNull

validateCvv(value) ==
    IF Len(value) = 0 THEN ErrorMessage(<<"CVV", "is", "required">>)
    ELSE IF Len(value) < MinCvvLength \/ Len(value) > MaxCvvLength
    THEN ErrorMessage(<<"CVV", "must", "be", "3-4", "digits">>)
    ELSE JSNull

validatePostalCode(value) ==
    IF Len(value) = 0
    THEN ErrorMessage(<<"Postal", "code", "is", "required">>)
    ELSE IF Len(value) # PostalCodeLength
    THEN ErrorMessage(<<"Postal", "code", "must", "be", "5", "digits">>)
    ELSE JSNull

----------------------------------------------------------------------------
(* The validators and formatters called on their own, as validators.test.js *)
(* calls them: each call is one action, applied holds the call.             *)

\* positions, counted from the last character, that the inputs alter
MaxAltered == 3

\* the characters a sequence of digits writes
Chars(digits) == [i \in DOMAIN digits |-> DigitChars[digits[i] + 1]]

\* card numbers of the tests (16, 16, 15 and 13 digits, all passing the
\* Luhn check), one of 19 digits that passes it, and the tests' numbers of
\* 12 and 20 digits
CardVectors ==
    {<<4, 1, 1, 1, 1, 1, 1, 1, 1, 1, 1, 1, 1, 1, 1, 1>>,
     <<5, 5, 0, 0, 0, 0, 0, 0, 0, 0, 0, 0, 0, 0, 0, 4>>,
     <<3, 7, 8, 2, 8, 2, 2, 4, 6, 3, 1, 0, 0, 0, 5>>,
     <<4, 2, 2, 2, 2, 2, 2, 2, 2, 2, 2, 2, 2>>,
     <<6, 2, 2, 2, 1, 2, 3, 4, 5, 6, 7, 8, 9, 0, 1, 2, 3, 4, 1>>,
     <<4, 1, 1, 1, 1, 1, 1, 1, 1, 1, 1, 1>>,
     <<4, 1, 1, 1, 1, 1, 1, 1, 1, 1, 1, 1, 1, 1, 1, 1, 1, 2, 3, 4>>}

\* s with the character at position i replaced by c
Replace(s, i, c) == [s EXCEPT ![i] = c]

\* what takes the place of a character: a digit, a letter, white space
CardChars == {DigitChars[n] : n \in DOMAIN DigitChars} \cup {"a", " "}

\* values handed to validateCardNumber: each vector bare and in groups of
\* four, with one of its last characters replaced and any last digit
CardInputs ==
    LET bare == {Chars(v) : v \in CardVectors}
        altered == {Replace(Replace(s, Len(s) - k, c), Len(s), d) :
                      s \in bare, k \in 0..(MaxAltered - 1), c \in CardChars,
                      d \in CardChars}
    IN  {<<>>} \cup bare \cup {Join(Groups(s)) : s \in bare} \cup altered

\* values handed to formatCardNumber: what a user has typed so far of a
\* number written with dashes, with spaces or with letters between
FormatInputs ==
    LET dashed == {[i \in 1..(Len(s) + Len(s) \div GroupSize) |->
                      IF i % (GroupSize + 1) = 0 THEN sep
                      ELSE s[i - i \div (GroupSize + 1)]] :
                     s \in {Chars(v) : v \in CardVectors},
                     sep \in {"-", " ", "a"}}
    IN  {Substring(s, n) : s \in dashed, n \in 0..(MaxCardChars + GroupSize)}
          \cup {Chars(v) : v \in CardVectors}

\* instants the tests and the turn of a month and of a year give new Date()
Nows ==
    {DateOf(y, m, ms) : y \in {2026}, m \in {0, 1}, ms \in {0, 1}}
      \cup {DateOf(2025, 11, 1), DateOf(2027, 0, 0)}

ExpirationInputs ==
    {<<>>,
     <<"1", "2", "/", "2", "7">>,
     <<"0", "1", "/", "2", "6">>,
     <<"1", "2", "/", "2", "5">>,
     <<"0", "2", "/", "2", "6">>,
     <<"1", "2", "/", "2", "4">>,
     <<"0", "1", "/", "2", "5">>,
     <<"0", "0", "/", "2", "7">>,
     <<"1", "3", "/", "2", "7">>,
     <<"1", "2", "2", "5">>,
     <<"1", "2", "-", "2", "5">>,
     <<"1", "/", "2", "6">>,
     <<"1", "2", "/", "2", "0", "2", "6">>,
     <<"a", "b", "/", "c", "d">>,
     <<"1", "2", "/", "2", "a">>}

CvvInputs ==
    {<<>>,
     <<"1">>,
     <<"1", "2">>,
     <<"1", "2", "3">>,
     <<"1", "2", "3", "4">>,
     <<"1", "2", "3", "4", "5">>,
     <<"1", "2", "a">>,
     <<"a", "b", "c", "d">>}

PostalCodeInputs ==
    {<<>>,
     <<"1", "2", "3", "4">>,
     <<"1", "2", "3", "4", "5">>,
     <<"1", "2", "3", "4", "5", "6">>,
     <<"1", "2", "3", "4", "a">>,
     <<"a", "b", "c", "d", "e">>}

\* the vitest process: no server, no page
InitValidators ==
    /\ clock = 0
    /\ env = [k \in EnvKeys |-> TRUE]
    /\ issued = {}
    /\ req = NoRequest
    /\ calls = <<>>
    /\ res = NoResponse
    /\ handlers = {}
    /\ accepted = {}
    /\ applied = NotApplied
    /\ form = NoForm
    /\ api = ApiInit

\* the call f(arg) made at instant now, and what it returned
Applied(f, arg, now, out) ==
    [f |-> f, arg |-> arg, out |-> out, now |-> now]

CallValidateCardNumber(cardNumber) ==
    /\ applied = NotApplied
    /\ applied' = Applied("validateCardNumber", cardNumber, DateOf(0, 0, 0),
                          validateCardNumber(cardNumber))
    /\ UNCHANGED <<form, api, clock, env, issued, req, calls, res, handlers,
                   accepted>>

\* vi.setSystemTime(now); validateExpirationDate(value)
CallValidateExpirationDate(value, now) ==
    /\ applied = NotApplied
    /\ applied' = Applied("validateExpirationDate", value, now,
                          validateExpirationDate(value, now))
    /\ UNCHANGED <<form, api, clock, env, issued, req, calls, res, handlers,
                   accepted>>

CallValidateCvv(value) ==
    /\ applied = NotApplied
    /\ applied' = Applied("validateCvv", value, DateOf(0, 0, 0),
                          validateCvv(value))
    /\ UNCHANGED <<form, api, clock, env, issued, req, calls, res, handlers,
                   accepted>>

CallValidatePostalCode(value) ==
    /\ applied = NotApplied
    /\ applied' = Applied("validatePostalCode", value, DateOf(0, 0, 0),
                          validatePostalCode(value))
    /\ UNCHANGED <<form, api, clock, env, issued, req, calls, res, handlers,
                   accepted>>

CallFormatCardNumber(value) ==
    /\ applied = NotApplied
    /\ applied' = Applied("formatCardNumber", value, DateOf(0, 0, 0),
                          formatCardNumber(value))
    /\ UNCHANGED <<form, api, clock, env, issued, req, calls, res, handlers,
                   accepted>>

\* the test has its result; the next call starts afresh
Returned ==
    /\ applied # NotApplied
    /\ applied' = NotApplied
    /\ UNCHANGED <<form, api, clock, env, issued, req, calls, res, handlers,
                   accepted>>

NextValidators ==
    \/ Returned
    \/ \E cardNumber \in CardInputs : CallValidateCardNumber(cardNumber)
    \/ \E value \in ExpirationInputs, now \in Nows :
          CallValidateExpirationDate(value, now)
    \/ \E value \in CvvInputs : CallValidateCvv(value)
    \/ \E value \in PostalCodeInputs : CallValidatePostalCode(value)
    \/ \E value \in FormatInputs : CallFormatCardNumber(value)

SpecValidators == InitValidators /\ [][NextValidators]_vars

----------------------------------------------------------------------------
\* the call of f that has just returned
Applies(f) == applied.f = f

\* s without its white space
Stripped(s) == SelectSeq(s, LAMBDA c : c \notin {" ", "\t"})

\* s is 13 to 19 decimal digits
IsCardDigits(s) ==
    /\ Len(s) \in MinCardDigits..MaxCardDigits
    /\ \A i \in DOMAIN s : s[i] \in {DigitChars[n] : n \in DOMAIN DigitChars}

\* what the digit at position i adds to the Luhn sum: the digits at an odd
\* distance from the last one count double, less 9 when that is above 9
LuhnTerm(s, i) ==
    LET digit == parseInt(s[i])
    IN  IF (Len(s) - i) % 2 = 0 THEN digit
        ELSE IF 2 * digit > 9 THEN 2 * digit - 9 ELSE 2 * digit

\* the Luhn sum of the digits from position i on
RECURSIVE LuhnSumFrom(_, _)
LuhnSumFrom(s, i) ==
    IF i > Len(s) THEN 0 ELSE LuhnTerm(s, i) + LuhnSumFrom(s, i + 1)

(* C21: validateCardNumber answers 'Card number must be 13-19 digits' for  *)
(* every input that, white space removed, is not 13 to 19 decimal digits,  *)
(* whatever its checksum; for the others it answers valid with the empty   *)
(* message exactly when the Luhn sum is 0 modulo 10 and 'Invalid card      *)
(* number' otherwise.                                                      *)
C21_ValidateCardNumber ==
    Applies("validateCardNumber") =>
        LET s == Stripped(applied.arg)
        IN  IF ~IsCardDigits(s)
            THEN applied.out = CardResult(FALSE, <<"Card", "number", "must",
                                                   "be", "13-19", "digits">>)
            ELSE IF LuhnSumFrom(s, 1) % 10 = 0
            THEN applied.out = CardResult(TRUE, <<>>)
            ELSE applied.out = CardResult(FALSE, <<"Invalid", "card",
                                                   "number">>)

\* the Amex number of the tests, written in groups, was found valid
C21_Witness ==
    /\ Applies("validateCardNumber")
    /\ applied.arg = Join(Groups(Chars(<<3, 7, 8, 2, 8, 2, 2, 4, 6, 3, 1, 0,
                                         0, 0, 5>>)))
    /\ applied.out.valid

----------------------------------------------------------------------------
(* C22: for every string of 13 to 19 digits that validateCardNumber        *)
(* accepts, replacing exactly one digit by a different digit gives a       *)
(* string that validateCardNumber rejects with 'Invalid card number'.      *)
C22_SingleDigitErrorDetected ==
    (Applies("validateCardNumber") /\ IsCardDigits(applied.arg)
       /\ applied.out.valid) =>
        \A i \in DOMAIN applied.arg, n \in DOMAIN DigitChars :
            DigitChars[n] # applied.arg[i] =>
                validateCardNumber(Replace(applied.arg, i, DigitChars[n])) =
                    CardResult(FALSE, <<"Invalid", "card", "number">>)

\* a number of 19 digits that is none of the vectors was accepted
C22_Witness ==
    /\ Applies("validateCardNumber") /\ IsCardDigits(applied.arg)
    /\ applied.out.valid
    /\ Len(applied.arg) = MaxCardDigits
    /\ applied.arg \notin {Chars(v) : v \in CardVectors}

----------------------------------------------------------------------------
\* the number the two characters of s from position i write
TwoDigits(s, i) == parseInt(s[i]) * 10 + parseInt(s[i + 1])

\* s has the form two digits, '/', two digits
IsMMYY(s) ==
    /\ Len(s) = 5 /\ s[3] = "/"
    /\ \A i \in {1, 2, 4, 5} : \E n \in DOMAIN DigitChars : DigitChars[n] = s[i]

\* the first instant of the month that follows month mm of year yyyy
FollowingMonth(mm, yyyy) ==
    IF mm = MonthsPerYear THEN DateOf(yyyy + 1, 0, 0) ELSE DateOf(yyyy, mm, 0)

\* instant now lies in month mm (1 = January) of year yyyy
InMonth(now, mm, yyyy) == now.month = yyyy * MonthsPerYear + (mm - 1)

(* C23: validateExpirationDate decides by the first failing check, in the  *)
(* order: empty input ('Expiration date is required'), form MM/YY          *)
(* ('Expiration date must be MM/YY format'), month in 1..12 ('Invalid      *)
(* month'), then 'Card has expired' exactly when the first instant of the  *)
(* month after MM/(2000+YY) is strictly before now, and null otherwise; a  *)
(* card that expires in the current month, December included, is valid.    *)
C23_ValidateExpirationDate ==
    Applies("validateExpirationDate") =>
        LET s == applied.arg
            mm == TwoDigits(s, 1)
            yyyy == Century + TwoDigits(s, 4)
        IN  /\ applied.out =
                 IF Len(s) = 0
                 THEN ErrorMessage(<<"Expiration", "date", "is", "required">>)
                 ELSE IF ~IsMMYY(s)
                 THEN ErrorMessage(<<"Expiration", "date", "must", "be",
                                     "MM/YY", "format">>)
                 ELSE IF mm \notin 1..MonthsPerYear
                 THEN ErrorMessage(<<"Invalid", "month">>)
                 ELSE IF Before(FollowingMonth(mm, yyyy), applied.now)
                 THEN ErrorMessage(<<"Card", "has", "expired">>)
                 ELSE JSNull
            /\ (IsMMYY(s) /\ mm \in 1..MonthsPerYear
                  /\ InMonth(applied.now, mm, yyyy)) => applied.out = JSNull

\* 12/25 was found valid at an instant of December 2025
C23_Witness ==
    /\ Applies("validateExpirationDate")
    /\ applied.arg = <<"1", "2", "/", "2", "5">>
    /\ InMonth(applied.now, 12, 2025)
    /\ applied.out = JSNull

----------------------------------------------------------------------------
\* the digits among the characters of s, in their order
KeptDigits(s) ==
    SelectSeq(s, LAMBDA c : \E n \in DOMAIN DigitChars : DigitChars[n] = c)

(* C24: formatCardNumber returns digits and single spaces only; the digits *)
(* are the first digits of the input in their order, at most 16 of them in *)
(* at most 19 characters; every group between spaces has exactly 4 digits  *)
(* but the last, which has 1 to 4, so no space leads or trails; an input   *)
(* without a digit gives the empty string.                                 *)
C24_FormatCardNumber ==
    Applies("formatCardNumber") =>
        LET out == applied.out
            typed == KeptDigits(applied.arg)
            kept == KeptDigits(out)
        IN  /\ \A i \in DOMAIN out :
                  IF i % (GroupSize + 1) = 0 THEN out[i] = " "
                  ELSE out[i] \in {DigitChars[n] : n \in DOMAIN DigitChars}
            /\ Len(out) % (GroupSize + 1) # 0 \/ Len(out) = 0
            /\ Len(out) <= MaxCardChars
            /\ Len(kept) <= 16
            /\ Len(kept) <= Len(typed)
            /\ kept = SubSeq(typed, 1, Len(kept))
            /\ Len(typed) <= 16 => kept = typed
            /\ Len(typed) = 0 => out = <<>>

\* twenty digits typed with dashes came out as four groups of four
C24_Witness ==
    /\ Applies("formatCardNumber")
    /\ Len(KeptDigits(applied.arg)) > 16
    /\ \E i \in DOMAIN applied.arg : applied.arg[i] = "-"
    /\ Len(applied.out) = MaxCardChars
    /\ Len(KeptDigits(applied.out)) = 16

----------------------------------------------------------------------------
\* s has a character that is no digit
HasNonDigit(s) ==
    \E i \in DOMAIN s : \A n \in DOMAIN DigitChars : DigitChars[n] # s[i]

----------------------------------------------------------------------------
(* The payment form (PaymentForm.js): the input handlers format what the   *)
(* user typed, the submit handler validates the four fields.               *)

\* the operand of `if (x)` for what the validators return
Truthy(x) == x.t = "object" \/ (x.t = "string" /\ Len(x.v) > 0)

\* what the user has in a field when its input event fires
TypedCardNumbers ==
    {<<>>,
     Chars(<<4, 1, 1, 1, 1, 1, 1, 1, 1, 1, 1, 1, 1, 1, 1, 1>>),
     Chars(<<4, 1, 1, 1, 1, 1, 1, 1, 1, 1, 1, 1, 1, 1, 1, 2>>),
     Chars(<<4, 1, 1, 1>>)}

TypedExpirationDates ==
    {<<>>, <<"1", "2", "2", "7">>, <<"0", "1", "/", "2", "6">>,
     <<"1", "2", "2", "5">>, <<"1", "3", "2", "7">>, <<"1">>}

TypedCvvs == {<<>>, <<"1", "2", "3">>, <<"1", "2">>}

TypedPostalCodes == {<<>>, <<"1", "2", "3", "4", "5">>, <<"1", "2", "3", "4">>}

\* main.js: PaymentForm(submitPayment, 99.99), read back by parseFloat
FormAmount == JSNumber("99.99")

\* the page is loaded at one of the instants
InitForm ==
    /\ clock = 0
    /\ env = [k \in EnvKeys |-> TRUE]
    /\ issued = {}
    /\ req = NoRequest
    /\ calls = <<>>
    /\ res = NoResponse
    /\ handlers = {}
    /\ accepted = {}
    /\ applied = NotApplied
    /\ form \in {NewForm(now) : now \in Nows}
    /\ api = ApiInit

\* the 'input' listener of field f: e.target.value = format(e.target.value);
\* clearError(e.target)
Input(f, typed, formatted) ==
    /\ form' = [form EXCEPT !.value[f] = formatted,
                            !.error[f] = JSNull,
                            !.event = "input"]
    /\ UNCHANGED <<api, clock, env, issued, req, calls, res, handlers,
                   accepted, applied>>

InputCardNumber(typed) ==
    Input("cardNumber", typed, formatCardNumber(typed))

InputExpirationDate(typed) ==
    Input("expirationDate", typed, formatExpirationDate(typed))

InputCvv(typed) == Input("cvv", typed, formatCvv(typed))

InputPostalCode(typed) == Input("postalCode", typed, formatPostalCode(typed))

\* the paymentData object handed to onSubmit
PaymentData(value) ==
    [cardNumber |-> value.cardNumber,
     expirationDate |-> value.expirationDate,
     cvv |-> value.cvv,
     postalCode |-> value.postalCode,
     amount |-> FormAmount]

\* the 'submit' listener; settled tells whether the promise of onSubmit
\* resolved or rejected, for a run that gets as far as calling it
handleSubmit(settled) ==
    LET value == form.value
        cardNumberError == validateCardNumber(value.cardNumber)
        expirationDateError ==
            validateExpirationDate(value.expirationDate, form.now)
        cvvError == validateCvv(value.cvv)
        postalCodeError == validatePostalCode(value.postalCode)
        hasErrors == \/ Truthy(cardNumberError)
                     \/ Truthy(expirationDateError)
                     \/ Truthy(cvvError)
                     \/ Truthy(postalCodeError)
        shown == [cardNumber |->
                      IF Truthy(cardNumberError)
                      THEN ErrorMessage(cardNumberError.message)
                      ELSE JSNull,
                  expirationDate |->
                      IF Truthy(expirationDateError)
                      THEN expirationDateError ELSE JSNull,
                  cvv |-> IF Truthy(cvvError) THEN cvvError ELSE JSNull,
                  postalCode |->
                      IF Truthy(postalCodeError)
                      THEN postalCodeError ELSE JSNull]
    IN  /\ form' = [form EXCEPT
                      !.error = shown,
                      !.event = "submit",
                      !.onSubmit = IF hasErrors THEN <<>>
                                   ELSE <<PaymentData(value)>>,
                      !.result = IF hasErrors THEN form.result
                                 ELSE IF settled = "resolved"
                                 THEN <<"Payment", "Successful!">>
                                 ELSE <<"Error:">>]
        /\ UNCHANGED <<api, clock, env, issued, req, calls, res, handlers,
                       accepted, applied>>

\* time passes in the browser
TickForm ==
    /\ \E now \in Nows : Before(form.now, now) /\ form' = [form EXCEPT !.now = now]
    /\ UNCHANGED <<api, clock, env, issued, req, calls, res, handlers,
                   accepted, applied>>

NextForm ==
    \/ TickForm
    \/ \E typed \in TypedCardNumbers : InputCardNumber(typed)
    \/ \E typed \in TypedExpirationDates : InputExpirationDate(typed)
    \/ \E typed \in TypedCvvs : InputCvv(typed)
    \/ \E typed \in TypedPostalCodes : InputPostalCode(typed)
    \/ \E settled \in {"resolved", "rejected"} : handleSubmit(settled)

SpecForm == InitForm /\ [][NextForm]_vars

----------------------------------------------------------------------------
\* the four values of the form pass their validators at its instant
AllFieldsValid ==
    /\ validateCardNumber(form.value.cardNumber).valid
    /\ validateExpirationDate(form.value.expirationDate, form.now) = JSNull
    /\ validateCvv(form.value.cvv) = JSNull
    /\ validatePostalCode(form.value.postalCode) = JSNull

(* C27: the submit handler calls onSubmit, with {cardNumber,               *)
(* expirationDate, cvv, postalCode, amount}, exactly when                  *)
(* validateCardNumber reports valid and the three other validators return  *)
(* null; with any invalid field it shows that field's error and does not   *)
(* call onSubmit.                                                          *)
C27_SubmitExactlyWhenValid ==
    form.event = "submit" =>
        /\ form.onSubmit # <<>> <=> AllFieldsValid
        /\ form.onSubmit # <<>> => form.onSubmit = <<PaymentData(form.value)>>
        /\ ~validateCardNumber(form.value.cardNumber).valid =>
              form.error.cardNumber =
                  ErrorMessage(validateCardNumber(form.value.cardNumber).message)
        /\ validateCvv(form.value.cvv) # JSNull =>
              form.error.cvv = validateCvv(form.value.cvv)

----------------------------------------------------------------------------
(* The client's api.js against the server: calls of submitPayment are      *)
(* suspended at their awaits (fetch of /api/auth, encryptPayload, fetch of *)
(* /api/payment) and resume one at a time; authToken is the module-level   *)
(* variable they share.                                                    *)

\* instants at which the steps of the client are taken
ClientInstants == {0, TokenLifetime, 2 * TokenLifetime}

\* .env files of a deployment: complete, or with one of the keys missing
ClientEnvs ==
    {e \in DotEnvs : /\ e["SERVER_PORT"]
                     /\ Cardinality({k \in DotEnvKeys : ~e[k]}) <= 1}

\* getAuthToken(`web-client-${Date.now()}`): the identifier without its
\* time stamp
WebClient == JSString("web-client")

\* the paymentData the form hands to submitPayment
SubmittedPayment ==
    [t |-> "object", cardNumber |-> JSString("4111 1111 1111 1111"),
     expirationDate |-> JSString("12/27"), cvv |-> JSString("123"),
     postalCode |-> JSString("12345"), amount |-> JSNumber("99.99")]

\* `Bearer ${authToken}`: with authToken null the header is 'Bearer null'
BearerHeader(authToken) ==
    MakeHeader("string", BearerPrefix,
               IF authToken = JSNull THEN NotAToken ELSE authToken)

\* what `if (!authToken)` finds at instant now
CacheAt(authToken, now) ==
    IF authToken = JSNull THEN "empty"
    ELSE IF authToken.exp <= now THEN "expired" ELSE "valid"

InitClient ==
    /\ clock = 0
    /\ env \in ClientEnvs
    /\ issued = {}
    /\ req = NoRequest
    /\ calls = <<>>
    /\ res = NoResponse
    /\ handlers = {}
    /\ accepted = {}
    /\ applied = NotApplied
    /\ form = NoForm
    /\ api = ApiInit

\* the other calls are no longer alone once the call of slot s runs
Beside(s, running) ==
    [r \in Slots |->
        IF r # s /\ running[r] # Idle THEN [running[r] EXCEPT !.alone = FALSE]
        ELSE running[r]]

\* the call of slot s ends: it leaves its slot and is the last one ended
Finish(s, outcome, status, error, late, authToken) ==
    api' = [authToken |-> authToken,
            running |-> [api.running EXCEPT ![s] = Idle],
            last |-> Ended(api.running[s], outcome, status, error, late)]

\* the last call that ended ran alone, found an expired token in the cache
\* and was answered 401
FailedOnStaleToken(last) ==
    /\ last.outcome = "rejected" /\ last.status = 401
    /\ last.cacheAtStart = "expired" /\ last.alone

\* submitPayment(paymentData) up to its first await, in the first free
\* slot: getAuthToken is called, and its fetch sent, only when authToken is
\* falsy
submitPayment(s) ==
    LET alone == \A r \in Slots : api.running[r] = Idle
        cache == CacheAt(api.authToken, clock)
        recovers == alone /\ FailedOnStaleToken(api.last)
        call == IF api.authToken = JSNull
                THEN Running("auth", NoHeader, cache, alone, recovers, 1, 0)
                ELSE Running("encrypt", NoHeader, cache, alone, recovers, 0, 0)
    IN  /\ api.running[s] = Idle
        /\ \A r \in Slots : r < s => api.running[r] # Idle
        /\ api' = [api EXCEPT
                     !.running = [Beside(s, api.running) EXCEPT ![s] = call]]
        /\ UNCHANGED <<form, clock, env, issued, req, calls, res, handlers,
                       accepted, applied>>

\* a getAuthToken that keeps the token it receives out of the cache
getAuthToken_NoStore(s, reachable) ==
    LET c == api.running[s]
        out == AuthHandler(MakeBody(TRUE, WebClient, NoEnvelope), env, clock)
        response == out.res
    IN  /\ c.pc = "auth"
        /\ IF ~reachable
           THEN /\ Finish(s, "rejected", 0, <<"Failed", "to", "fetch">>,
                          FALSE, api.authToken)
                /\ UNCHANGED issued
           ELSE IF response.status # 200
           THEN /\ Finish(s, "rejected", response.status,
                          response.body.error, FALSE, api.authToken)
                /\ UNCHANGED issued
           ELSE /\ api' = [api EXCEPT
                             !.running[s] = [c EXCEPT !.pc = "encrypt"]]
                /\ issued' = issued \cup {response.body.token}
        /\ UNCHANGED <<form, clock, env, req, calls, res, handlers, accepted,
                       applied>>

\* getAuthToken from the moment its fetch settles: the server handles the
\* request at this instant, or the fetch rejects; on a response that is not
\* ok it throws, otherwise authToken = result.token and submitPayment goes
\* on to encryptPayload
getAuthToken(s, reachable) ==
    LET c == api.running[s]
        out == AuthHandler(MakeBody(TRUE, WebClient, NoEnvelope), env, clock)
        response == out.res
    IN  /\ c.pc = "auth"
        /\ IF ~reachable
           THEN /\ Finish(s, "rejected", 0, <<"Failed", "to", "fetch">>,
                          FALSE, api.authToken)
                /\ UNCHANGED issued
           ELSE IF response.status # 200
           THEN /\ Finish(s, "rejected", response.status,
                          response.body.error, FALSE, api.authToken)
                /\ UNCHANGED issued
           ELSE /\ api' = [api EXCEPT
                             !.authToken = response.body.token,
                             !.running[s] = [c EXCEPT !.pc = "encrypt"]]
                /\ issued' = issued \cup {response.body.token}
        /\ UNCHANGED <<form, clock, env, req, calls, res, handlers, accepted,
                       applied>>

\* submitPayment from the moment encryptPayload settles: it throws when the
\* encrypt key is missing, otherwise it reads authToken for the header and
\* sends the /api/payment request
Encrypted(s, cek) ==
    LET c == api.running[s]
        payload_jwe == encryptPayload(SubmittedPayment, defineConfig(env), cek)
    IN  /\ c.pc = "encrypt"
        /\ IF ~payload_jwe.ok
           THEN Finish(s, "rejected", 0, payload_jwe.error, FALSE,
                       api.authToken)
           ELSE api' = [api EXCEPT
                          !.running[s] =
                              [c EXCEPT !.pc = "payment",
                                        !.authorization =
                                            BearerHeader(api.authToken),
                                        !.payments = c.payments + 1]]
        /\ UNCHANGED <<form, clock, env, issued, req, calls, res, handlers,
                       accepted, applied>>

\* a submitPayment that keeps the token after a 401
Responded_KeepToken(s, reachable, uuid) ==
    LET c == api.running[s]
        payload_jwe == encryptPayload(SubmittedPayment, defineConfig(env), 1)
        out == PaymentHandler(c.authorization,
                              MakeBody(TRUE, JSUndefined, payload_jwe.value),
                              env, clock, uuid)
        response == out.res
        late == c.authorization.rest.exp <= clock
    IN  /\ c.pc = "payment"
        /\ IF ~reachable
           THEN Finish(s, "rejected", 0, <<"Failed", "to", "fetch">>,
                       FALSE, api.authToken)
           ELSE IF response.status # 200
           THEN Finish(s, "rejected", response.status, response.body.error,
                       late, api.authToken)
           ELSE Finish(s, "resolved", response.status, <<>>, late,
                       api.authToken)
        /\ UNCHANGED <<form, clock, env, issued, req, calls, res, handlers,
                       accepted, applied>>

\* submitPayment from the moment the fetch of /api/payment settles: the
\* server handles the request at this instant, or the fetch rejects; a 401
\* clears authToken and throws, another status that is not ok throws, a 200
\* returns the result
Responded(s, reachable, uuid) ==
    LET c == api.running[s]
        payload_jwe == encryptPayload(SubmittedPayment, defineConfig(env), 1)
        out == PaymentHandler(c.authorization,
                              MakeBody(TRUE, JSUndefined, payload_jwe.value),
                              env, clock, uuid)
        response == out.res
        late == c.authorization.rest.exp <= clock
    IN  /\ c.pc = "payment"
        /\ IF ~reachable
           THEN Finish(s, "rejected", 0, <<"Failed", "to", "fetch">>,
                       FALSE, api.authToken)
           ELSE IF response.status = 401
           THEN Finish(s, "rejected", response.status, response.body.error,
                       late, JSNull)
           ELSE IF response.status # 200
           THEN Finish(s, "rejected", response.status, response.body.error,
                       late, api.authToken)
           ELSE Finish(s, "resolved", response.status, <<>>, late,
                       api.authToken)
        /\ UNCHANGED <<form, clock, env, issued, req, calls, res, handlers,
                       accepted, applied>>

\* the wall clock moves on to a later instant
TickClient ==
    /\ \E i \in ClientInstants : i > clock /\ clock' = i
    /\ UNCHANGED <<form, api, env, issued, req, calls, res, handlers, accepted,
                   applied>>

NextClient ==
    \/ TickClient
    \/ \E s \in Slots : submitPayment(s)
    \/ \E s \in Slots, reachable \in BOOLEAN : getAuthToken(s, reachable)
    \/ \E s \in Slots, cek \in ContentKeys : Encrypted(s, cek)
    \/ \E s \in Slots, reachable \in BOOLEAN, uuid \in 1..MaxUUID :
          Responded(s, reachable, uuid)

SpecClient == InitClient /\ [][NextClient]_vars

----------------------------------------------------------------------------
\* the calls of submitPayment whose /api/payment request is under way
Sent == {s \in Slots : api.running[s].pc = "payment"}

(* C29: whatever the interleaving of the calls of submitPayment that share *)
(* authToken, every /api/payment request sent carries in its Authorization *)
(* header a token that /api/auth returned before; none is sent with        *)
(* 'Bearer null'.                                                          *)
C29_SentTokenWasIssued ==
    \A s \in Sent :
        /\ api.running[s].authorization.rest \in issued
        /\ api.running[s].authorization # BearerHeader(JSNull)

----------------------------------------------------------------------------
\* in this step getAuthToken of slot s received a successful response
AuthSucceeded(s) ==
    api.running[s].pc = "auth" /\ api'.running[s].pc = "encrypt"

\* in this step the call of slot s ended on a response of that status
EndedWith(s, status) ==
    /\ api.running[s] # Idle /\ api'.running[s] = Idle
    /\ api'.last.status = status

\* in this step a call of submitPayment started in slot s
Started(s) == api.running[s] = Idle /\ api'.running[s] # Idle

\* no call, running or ended, has sent more than one request of a kind
OneRequestEach ==
    /\ api.last.auths <= 1 /\ api.last.payments <= 1
    /\ \A s \in Slots : api.running[s] # Idle =>
          api.running[s].auths <= 1 /\ api.running[s].payments <= 1

\* what C28 says of the steps other than a successful /api/auth response
CacheOtherwise ==
    /\ \A s \in Slots : EndedWith(s, 401) /\ api.running[s].pc = "payment" =>
          api'.authToken = JSNull
    /\ (api'.authToken # api.authToken /\ api'.authToken = JSNull) =>
          \E s \in Slots : EndedWith(s, 401) /\ api.running[s].pc = "payment"
    /\ \A s \in Slots : Started(s) =>
          (api'.running[s].pc = "auth" <=> api.authToken = JSNull)
    /\ \A s \in Slots : Started(s) =>
          api'.running[s].auths =
              (IF api'.running[s].pc = "auth" THEN 1 ELSE 0)
    /\ \A s \in Slots : api.running[s] # Idle /\ api.running[s].pc = "payment"
          => api'.running[s] = Idle \/ api'.running[s] = api.running[s]
                \/ api'.running[s] = [api.running[s] EXCEPT !.alone = FALSE]
    /\ OneRequestEach'

\* C28 as stated: the cached token goes from empty to a token when
\* getAuthToken receives a successful response, is cleared when a payment
\* submission receives a 401, and changes in no other way; submitPayment asks
\* for a token only when the cache is empty, sends at most one /api/payment
\* request and does not retry
C28_Original ==
    [][/\ CacheOtherwise
       /\ \A s \in Slots : AuthSucceeded(s) =>
             /\ api.authToken = JSNull
             /\ api'.authToken \in issued' /\ api'.authToken.iat = clock
       /\ (api'.authToken # api.authToken /\ api'.authToken # JSNull) =>
             /\ api.authToken = JSNull
             /\ \E s \in Slots : AuthSucceeded(s)]_vars

(* C28: the cached token changes only in two ways: it is set to the token  *)
(* of the response when getAuthToken receives a successful /api/auth       *)
(* response, from empty or in place of the token that a concurrent call    *)
(* stored, and it is cleared when a payment submission receives a 401; a   *)
(* failed /api/auth call, a 400, a 500 or a successful payment leave it    *)
(* unchanged.  submitPayment asks for a token only when the cache is       *)
(* empty, sends at most one /api/payment request per call and never        *)
(* retries a failed submission.                                            *)
C28_CacheChangesInTwoWays ==
    [][/\ CacheOtherwise
       /\ \A s \in Slots : AuthSucceeded(s) =>
             api'.authToken \in issued' /\ api'.authToken.iat = clock
       /\ (api'.authToken # api.authToken /\ api'.authToken # JSNull) =>
             \E s \in Slots : AuthSucceeded(s)]_vars

\* a call that found the cache empty and stored a token ended on a 401,
\* which emptied the cache again
C28_Witness ==
    /\ api.last.cacheAtStart = "empty" /\ api.last.auths = 1
    /\ api.last.status = 401
    /\ api.authToken = JSNull

----------------------------------------------------------------------------
\* no call of submitPayment is running
AllIdle == \A s \in Slots : api.running[s] = Idle

\* the server has its three keys and the client build the encrypt key
KeysConfigured == \A k \in DotEnvKeys : env[k]

\* the call that ended last ran alone from start to end and every request
\* it sent was answered
LastRanAloneAnswered ==
    /\ AllIdle /\ api.last.outcome # "none"
    /\ api.last.alone /\ api.last.status # 0

\* the call that ended last found an expired token in the cache: it failed
\* once, with the 401 error of an expired token, and the cache is empty
StaleCallFailsAndClears ==
    (KeysConfigured /\ LastRanAloneAnswered
       /\ api.last.cacheAtStart = "expired") =>
        /\ api.last.outcome = "rejected" /\ api.last.status = 401
        /\ api.last.error = MsgExpired
        /\ api.last.auths = 0 /\ api.last.payments = 1
        /\ api.authToken = JSNull

\* C30 as stated: a call on an expired cached token fails once with the 401
\* error and clears the cache, and the next call obtains a fresh token and
\* succeeds
C30_Original ==
    /\ StaleCallFailsAndClears
    /\ (KeysConfigured /\ LastRanAloneAnswered /\ api.last.recovers) =>
          /\ api.last.cacheAtStart = "empty" /\ api.last.auths = 1
          /\ api.last.payments = 1
          /\ api.last.outcome = "resolved" /\ api.last.status = 200

(* C30: with the keys configured and the server answering, a call of       *)
(* submitPayment that finds an expired token in the cache fails once with  *)
(* the 401 error and clears the cache; the next call, with no other call   *)
(* interleaved, obtains a fresh token and sends one request, which         *)
(* succeeds when the server handles it less than 300 seconds after it      *)
(* issued the token, and otherwise fails with the 401 error of an expired  *)
(* token and clears the cache again.                                       *)
C30_RecoveryAfterExpiry ==
    /\ StaleCallFailsAndClears
    /\ (KeysConfigured /\ LastRanAloneAnswered /\ api.last.recovers) =>
          /\ api.last.cacheAtStart = "empty" /\ api.last.auths = 1
          /\ api.last.payments = 1
          /\ IF ~api.last.late
             THEN /\ api.last.outcome = "resolved" /\ api.last.status = 200
                  /\ api.authToken \in issued
             ELSE /\ api.last.outcome = "rejected" /\ api.last.status = 401
                  /\ api.last.error = MsgExpired
                  /\ api.authToken = JSNull

\* the call after the one that failed on the expired token has succeeded
\* with a token issued after that failure
C30_Witness ==
    /\ KeysConfigured /\ LastRanAloneAnswered /\ api.last.recovers
    /\ api.last.outcome = "resolved" /\ api.last.status = 200
    /\ api.authToken # JSNull /\ api.authToken.iat >= TokenLifetime

====
